------------------------------ MODULE Spec2Model ------------------------------
(***************************************************************************)
(* ClimateBud: the query-to-analysis pipeline.                             *)
(*                                                                         *)
(*   - QueryProcessor (src/core/query_processor.py): free text ->          *)
(*     ParsedQuery, through a language-model call or the deterministic     *)
(*     fallback parser.                                                    *)
(*   - AnalysisEngine (src/core/analysis_engine.py): tables -> result.     *)
(*   - InsightGenerator (src/core/insight_generator.py): result ->         *)
(*     insights, through a language-model call or the fallback rules.      *)
(*                                                                         *)
(* Text is a sequence of one-character strings, so that str.lower, the     *)
(* `in` substring test and the regular expressions of the source are       *)
(* computed character by character.  Calendar dates are proleptic          *)
(* Gregorian ordinals (date.toordinal) and are formatted to year-month-day *)
(* as strftime("%Y-%m-%d") does.                                           *)
(***************************************************************************)
EXTENDS Integers, Sequences, FiniteSets, TLC

VARIABLES
    client,        \* QueryProcessor.client is configured (an API key was given)
    pc,            \* position of the process_query invocation
    query,         \* the text passed to process_query
    now,           \* datetime.now() of this invocation, as a date ordinal
    calls,         \* chat.completions.create calls made by this invocation
    reply,         \* what the create call produced
    result,        \* what process_query returned or raised
    violations,    \* the caller's violations DataFrame
    weather,       \* the caller's weather DataFrame
    apc,           \* position of the analysis invocation
    called,        \* the analysis method that was called
    snapshot,      \* the two tables as they were when the analysis was called
    analysis,      \* what the analysis call returned or raised
    igClient,      \* InsightGenerator.client is configured
    ipc,           \* position of the generate_insights invocation
    iargs,         \* the arguments of generate_insights
    icalls,        \* chat.completions.create calls made by this invocation
    ireply,        \* what the create call produced
    insights,      \* what generate_insights returned or raised
    heap,          \* the DataFrames two callers of the analyses hold
    prepared,      \* those DataFrames as the callers built them
    writer,        \* the caller whose call last wrote to each DataFrame (0: none)
    threads,       \* the two callers: the call each is in, its position and locals
    apppc,         \* position of app.process_query
    frame,         \* the locals of app.process_query
    session,       \* st.session_state
    origin,        \* the request each session value was written by
    ran,           \* the stages the request went through, with their outcome
    served         \* requests made so far

qpVars == <<client, pc, query, now, calls, reply, result>>
aeVars == <<violations, weather, apc, called, snapshot, analysis>>
igVars == <<igClient, ipc, iargs, icalls, ireply, insights>>
ccVars == <<heap, prepared, writer, threads>>
appVars == <<apppc, frame, session, origin, ran, served>>
vars == <<client, pc, query, now, calls, reply, result,
          violations, weather, apc, called, snapshot, analysis,
          igClient, ipc, iargs, icalls, ireply, insights,
          heap, prepared, writer, threads,
          apppc, frame, session, origin, ran, served>>

-----------------------------------------------------------------------------
(* Bounds of the model.                                                    *)

\* A query text is at most MaxFrags fragments joined by single spaces.
MaxFrags == 2

\* A table holds at most MaxRows rows.
MaxRows == 2

\* A series of monthly counts is over at most MaxMonths months, with at most
\* MaxPerMonth violations a month.
MaxMonths == 3
MaxPerMonth == 4

\* A facility has one violation a month for at most MaxRun months.
MaxRun == 12

\* A daily weather table has at most MaxDays days with a precipitation value.
MaxDays == 12

\* A session of the app makes at most MaxRequests requests.
MaxRequests == 2

-----------------------------------------------------------------------------
(* Characters and strings.                                                 *)

UpperLetters ==
  <<"A","B","C","D","E","F","G","H","I","J","K","L","M",
    "N","O","P","Q","R","S","T","U","V","W","X","Y","Z">>

LowerLetters ==
  <<"a","b","c","d","e","f","g","h","i","j","k","l","m",
    "n","o","p","q","r","s","t","u","v","w","x","y","z">>

Digits == <<"0","1","2","3","4","5","6","7","8","9">>

Range(f) == {f[i] : i \in DOMAIN f}

Min(S) == CHOOSE x \in S : \A y \in S : x <= y

UpperSet == Range(UpperLetters)
LowerSet == Range(LowerLetters)
DigitSet == Range(Digits)
WordChars == UpperSet \cup LowerSet \cup DigitSet \cup {"_"}

\* the lower-case letter of each upper-case letter, and the reverse
ToLowerMap == [c \in UpperSet |-> LowerLetters[CHOOSE i \in 1..26 : UpperLetters[i] = c]]
ToUpperMap == [c \in LowerSet |-> UpperLetters[CHOOSE i \in 1..26 : LowerLetters[i] = c]]

\* the value of each decimal digit
DigitValue == [c \in DigitSet |-> (CHOOSE i \in 1..10 : Digits[i] = c) - 1]

IsUpper(c) == c \in UpperSet
IsLower(c) == c \in LowerSet
IsDigit(c) == c \in DigitSet
IsSpace(c) == c = " "
IsWordChar(c) == c \in WordChars

LowerChar(c) == IF c \in UpperSet THEN ToLowerMap[c] ELSE c
UpperChar(c) == IF c \in LowerSet THEN ToUpperMap[c] ELSE c

\* str.lower()
Lower(s) ==
  LET f == [i \in 1..Len(s) |-> LowerChar(s[i])]
  IN  SubSeq(f, 1, Len(s))

\* str.title(): a letter is upper-cased after a non-letter, lower-cased after a letter
Title(s) ==
  LET f == [i \in 1..Len(s) |->
              IF i = 1 \/ ~(IsUpper(s[i-1]) \/ IsLower(s[i-1]))
              THEN UpperChar(s[i]) ELSE LowerChar(s[i])]
  IN  SubSeq(f, 1, Len(s))

\* s[i:i+len(w)] == w
StartsWithAt(s, i, w) ==
  /\ i >= 1
  /\ i + Len(w) - 1 <= Len(s)
  /\ SubSeq(s, i, i + Len(w) - 1) = w

\* w in s
Contains(s, w) ==
  LET n == Len(w)
  IN  \E i \in 1..(Len(s) - n + 1) : SubSeq(s, i, i + n - 1) = w

\* any(word in s for word in words)
AnyWordIn(s, words) == \E k \in DOMAIN words : Contains(s, words[k])

\* "".join(filter(str.isdigit, s))
FilterDigits(s) == SelectSeq(s, IsDigit)

\* int(s) for a non-empty string of decimal digits
RECURSIVE ToInt(_)
ToInt(ds) ==
  IF ds = <<>> THEN 0
  ELSE 10 * ToInt(SubSeq(ds, 1, Len(ds) - 1)) + DigitValue[ds[Len(ds)]]

\* str(n) for n >= 0, as f"{n}" formats it
RECURSIVE IntToStr(_)
IntToStr(n) ==
  IF n < 10 THEN <<Digits[n + 1]>>
  ELSE IntToStr(n \div 10) \o <<Digits[(n % 10) + 1]>>

\* last index of the run of digits / spaces / word characters that starts at p
\* (p - 1 when s[p] is not in the class): what a greedy \d+, \s+, \w+ consumes
DigitRunEnd(s, p) ==
  LET stops == {i \in p..Len(s) : ~IsDigit(s[i])}
  IN  IF p > Len(s) THEN p - 1
      ELSE IF stops = {} THEN Len(s) ELSE Min(stops) - 1

SpaceRunEnd(s, p) ==
  LET stops == {i \in p..Len(s) : ~IsSpace(s[i])}
  IN  IF p > Len(s) THEN p - 1
      ELSE IF stops = {} THEN Len(s) ELSE Min(stops) - 1

WordRunEnd(s, p) ==
  LET stops == {i \in p..Len(s) : ~IsWordChar(s[i])}
  IN  IF p > Len(s) THEN p - 1
      ELSE IF stops = {} THEN Len(s) ELSE Min(stops) - 1

-----------------------------------------------------------------------------
(* Outcomes and JSON-like values.                                          *)

Ok(v) == [kind |-> "ok", v |-> v]
Raise(e) == [kind |-> "raise", exc |-> e]

Missing == [t |-> "missing"]                 \* key absent: dict.get gives None
Null == [t |-> "null"]                       \* JSON null / None
Str(s) == [t |-> "str", v |-> s]             \* a string, as characters
Tok(s) == [t |-> "tok", v |-> s]             \* a non-empty string used as a token
List(s) == [t |-> "list", v |-> s]           \* a JSON array of tokens
Scalar == [t |-> "scalar"]                   \* a number or true: truthy, no str, no dict
EmptyDict == [t |-> "dict0"]                 \* {}

\* Python truthiness: `not x` is ~Truthy(x)
Truthy(x) ==
  CASE x.t \in {"missing", "null", "dict0"} -> FALSE
    [] x.t = "str" -> Len(x.v) > 0
    [] x.t = "list" -> Len(x.v) > 0
    [] OTHER -> TRUE

\* x supports .get(): a dict
IsDict(x) == x.t \in {"dict", "dict0"}

-----------------------------------------------------------------------------
(* Calendar: datetime.now(), timedelta, strftime("%Y-%m-%d").              *)

DaysBeforeMonth == <<0, 31, 59, 90, 120, 151, 181, 212, 243, 273, 304, 334>>
DaysInMonth == <<31, 28, 31, 30, 31, 30, 31, 31, 30, 31, 30, 31>>

IsLeap(y) == y % 4 = 0 /\ (y % 100 # 0 \/ y % 400 = 0)

\* date(y, m, d).toordinal(): 1 is 0001-01-01
ToOrdinal(y, m, d) ==
  LET p == y - 1
  IN  p * 365 + (p \div 4) - (p \div 100) + (p \div 400)
      + DaysBeforeMonth[m] + (IF m > 2 /\ IsLeap(y) THEN 1 ELSE 0) + d

Date(y, m, d) == [t |-> "date", y |-> y, m |-> m, d |-> d]

\* date.fromordinal(n) for n >= 1, written out as strftime("%Y-%m-%d") gives it
FromOrdinal(ord) ==
  LET n0   == ord - 1
      n400 == n0 \div 146097
      r400 == n0 % 146097
      n100 == r400 \div 36524
      r100 == r400 % 36524
      n4   == r100 \div 1461
      r4   == r100 % 1461
      n1   == r4 \div 365
      n    == r4 % 365
      year == n400 * 400 + 1 + n100 * 100 + n4 * 4 + n1
      leap == n1 = 3 /\ (n4 # 24 \/ n100 = 3)
      m0   == (n + 50) \div 32
      pre0 == DaysBeforeMonth[m0] + (IF m0 > 2 /\ leap THEN 1 ELSE 0)
      month == IF pre0 > n THEN m0 - 1 ELSE m0
      pre  == IF pre0 > n
              THEN pre0 - (DaysInMonth[m0 - 1] + (IF m0 - 1 = 2 /\ leap THEN 1 ELSE 0))
              ELSE pre0
  IN  IF n1 = 4 \/ n100 = 4 THEN Date(year - 1, 12, 31)
      ELSE Date(year, month, n - pre + 1)

\* (end - timedelta(days=d)).strftime("%Y-%m-%d"): OverflowError when the
\* timedelta (|days| <= 999999999) or the resulting date (ordinal >= 1) is out
\* of range
MinusDays(end, d) ==
  IF d > 999999999 \/ end - d < 1 THEN Raise("OverflowError")
  ELSE Ok(FromOrdinal(end - d))

\* d1 <= d2 for two dates written year-month-day
DateLeq(d1, d2) ==
  \/ d1.y < d2.y
  \/ d1.y = d2.y /\ d1.m < d2.m
  \/ d1.y = d2.y /\ d1.m = d2.m /\ d1.d <= d2.d

-----------------------------------------------------------------------------
(* config.py                                                               *)

DEFAULT_STATE == <<"A", "L">>
DEFAULT_COUNTY == <<"B", "a", "l", "d", "w", "i", "n">>

-----------------------------------------------------------------------------
(* QueryProcessor: lookup tables.                                          *)

QueryTypes ==
  {"spill_analysis", "violation_trends", "repeat_violators",
   "weather_correlation", "facility_search", "general_overview"}

\* source_map of _infer_data_sources
source_map ==
  [qt \in QueryTypes |->
     CASE qt = "weather_correlation" -> <<"epa", "noaa">>
       [] qt = "general_overview" -> <<"epa", "census">>
       [] OTHER -> <<"epa">>]

\* viz_map of _infer_visualization
viz_map ==
  [qt \in QueryTypes |->
     CASE qt = "spill_analysis" -> "combined"
       [] qt = "violation_trends" -> "time_series"
       [] qt = "repeat_violators" -> "bar_chart"
       [] qt = "weather_correlation" -> "scatter"
       [] qt = "facility_search" -> "map"
       [] OTHER -> "combined"]

\* source_map.get(query_type, ["epa"]); query_type is a token or None
_infer_data_sources(qt) ==
  IF qt.t = "tok" /\ qt.v \in QueryTypes THEN List(source_map[qt.v])
  ELSE List(<<"epa">>)

\* viz_map.get(query_type, "combined")
_infer_visualization(qt) ==
  IF qt.t = "tok" /\ qt.v \in QueryTypes THEN Tok(viz_map[qt.v])
  ELSE Tok("combined")

-----------------------------------------------------------------------------
(* QueryProcessor._parse_relative_time                                     *)

\* int("".join(filter(str.isdigit, relative)) or "1")
DigitsOrOne(relative) ==
  LET ds == FilterDigits(relative)
  IN  IF ds = <<>> THEN 1 ELSE ToInt(ds)

\* the number of days subtracted from now for a relative expression
RelativeDays(relative) ==
  LET r == Lower(relative)
  IN  IF Contains(r, <<"y", "e", "a", "r">>) THEN 365 * DigitsOrOne(r)
      ELSE IF Contains(r, <<"m", "o", "n", "t", "h">>) THEN 30 * DigitsOrOne(r)
      ELSE IF Contains(r, <<"w", "e", "e", "k">>) THEN 7 * DigitsOrOne(r)
      ELSE 365

TimeRange(start, end) ==
  [t |-> "dict", start_date |-> start, end_date |-> end, relative |-> Missing]

_parse_relative_time(relative, n) ==
  LET start == MinusDays(n, RelativeDays(relative))
  IN  IF start.kind = "raise" THEN start
      ELSE Ok(TimeRange(start.v, FromOrdinal(n)))

-----------------------------------------------------------------------------
(* QueryProcessor._extract_time_range                                      *)

\* re.search(r'(\d{4})', query): start of the first four digits in a row, 0 if none
YearMatch(q) ==
  LET hits == {i \in 1..(Len(q) - 3) : \A k \in 0..3 : IsDigit(q[i + k])}
  IN  IF hits = {} THEN 0 ELSE Min(hits)

\* \d+\s+<unit> at position p: the end of the digits matched, 0 if no match
DigitsThenUnit(s, p, unit) ==
  IF p > Len(s) \/ ~IsDigit(s[p]) THEN 0
  ELSE LET e == DigitRunEnd(s, p)
           w == SpaceRunEnd(s, e + 1)
       IN  IF w > e /\ StartsWithAt(s, w + 1, unit) THEN e ELSE 0

\* (last\s+)?(\d+)\s+<unit>s? tried at position i: <<start, end>> of group 2,
\* <<0, 0>> if the pattern does not match there
PhraseMatchAt(s, i, unit) ==
  LET w == SpaceRunEnd(s, i + 4)
      withLast == IF StartsWithAt(s, i, <<"l", "a", "s", "t">>) /\ w >= i + 4
                  THEN DigitsThenUnit(s, w + 1, unit) ELSE 0
      bare == DigitsThenUnit(s, i, unit)
  IN  IF withLast > 0 THEN <<w + 1, withLast>>
      ELSE IF bare > 0 THEN <<i, bare>>
      ELSE <<0, 0>>

\* group 2 of the leftmost match of (last\s+)?(\d+)\s+<unit>s? in s
PhraseMatch(s, unit) ==
  LET hits == {i \in 1..Len(s) : PhraseMatchAt(s, i, unit)[1] > 0}
  IN  IF hits = {} THEN <<0, 0>> ELSE PhraseMatchAt(s, Min(hits), unit)

\* re.search(r'(last\s+)?(\d+)\s+years?', query_lower)
YearsMatch(s) == PhraseMatch(s, <<"y", "e", "a", "r">>)

_extract_time_range(q, n) ==
  LET query_lower == Lower(q)
      year_match  == YearMatch(q)
      years_match == YearsMatch(query_lower)
  IN  IF years_match[1] > 0
      THEN LET num_years == ToInt(SubSeq(query_lower, years_match[1], years_match[2]))
           IN  _parse_relative_time(
                 <<"l", "a", "s", "t", " ">> \o IntToStr(num_years)
                   \o <<" ", "y", "e", "a", "r", "s">>, n)
      ELSE IF year_match > 0
      THEN LET year == ToInt(SubSeq(q, year_match, year_match + 3))
           IN  Ok(TimeRange(Date(year, 1, 1), Date(year, 12, 31)))
      ELSE _parse_relative_time(
             <<"l", "a", "s", "t", " ", "3", " ", "y", "e", "a", "r", "s">>, n)

-----------------------------------------------------------------------------
(* QueryProcessor._extract_location                                        *)

states ==
  << <<<<"a", "l", "a", "b", "a", "m", "a">>, <<"A", "L">>>>,
     <<<<"a", "l", "a", "s", "k", "a">>, <<"A", "K">>>>,
     <<<<"a", "r", "i", "z", "o", "n", "a">>, <<"A", "Z">>>>,
     <<<<"a", "r", "k", "a", "n", "s", "a", "s">>, <<"A", "R">>>>,
     <<<<"c", "a", "l", "i", "f", "o", "r", "n", "i", "a">>, <<"C", "A">>>>,
     <<<<"c", "o", "l", "o", "r", "a", "d", "o">>, <<"C", "O">>>>,
     <<<<"c", "o", "n", "n", "e", "c", "t", "i", "c", "u", "t">>, <<"C", "T">>>>,
     <<<<"d", "e", "l", "a", "w", "a", "r", "e">>, <<"D", "E">>>>,
     <<<<"f", "l", "o", "r", "i", "d", "a">>, <<"F", "L">>>>,
     <<<<"g", "e", "o", "r", "g", "i", "a">>, <<"G", "A">>>>,
     <<<<"h", "a", "w", "a", "i", "i">>, <<"H", "I">>>>,
     <<<<"i", "d", "a", "h", "o">>, <<"I", "D">>>>,
     <<<<"i", "l", "l", "i", "n", "o", "i", "s">>, <<"I", "L">>>>,
     <<<<"i", "n", "d", "i", "a", "n", "a">>, <<"I", "N">>>>,
     <<<<"i", "o", "w", "a">>, <<"I", "A">>>>,
     <<<<"k", "a", "n", "s", "a", "s">>, <<"K", "S">>>>,
     <<<<"k", "e", "n", "t", "u", "c", "k", "y">>, <<"K", "Y">>>>,
     <<<<"l", "o", "u", "i", "s", "i", "a", "n", "a">>, <<"L", "A">>>>,
     <<<<"m", "a", "i", "n", "e">>, <<"M", "E">>>>,
     <<<<"m", "a", "r", "y", "l", "a", "n", "d">>, <<"M", "D">>>>,
     <<<<"m", "a", "s", "s", "a", "c", "h", "u", "s", "e", "t", "t", "s">>, <<"M", "A">>>>,
     <<<<"m", "i", "c", "h", "i", "g", "a", "n">>, <<"M", "I">>>>,
     <<<<"m", "i", "n", "n", "e", "s", "o", "t", "a">>, <<"M", "N">>>>,
     <<<<"m", "i", "s", "s", "i", "s", "s", "i", "p", "p", "i">>, <<"M", "S">>>>,
     <<<<"m", "i", "s", "s", "o", "u", "r", "i">>, <<"M", "O">>>>,
     <<<<"m", "o", "n", "t", "a", "n", "a">>, <<"M", "T">>>>,
     <<<<"n", "e", "b", "r", "a", "s", "k", "a">>, <<"N", "E">>>>,
     <<<<"n", "e", "v", "a", "d", "a">>, <<"N", "V">>>>,
     <<<<"n", "e", "w", " ", "h", "a", "m", "p", "s", "h", "i", "r", "e">>, <<"N", "H">>>>,
     <<<<"n", "e", "w", " ", "j", "e", "r", "s", "e", "y">>, <<"N", "J">>>>,
     <<<<"n", "e", "w", " ", "m", "e", "x", "i", "c", "o">>, <<"N", "M">>>>,
     <<<<"n", "e", "w", " ", "y", "o", "r", "k">>, <<"N", "Y">>>>,
     <<<<"n", "o", "r", "t", "h", " ", "c", "a", "r", "o", "l", "i", "n", "a">>, <<"N", "C">>>>,
     <<<<"n", "o", "r", "t", "h", " ", "d", "a", "k", "o", "t", "a">>, <<"N", "D">>>>,
     <<<<"o", "h", "i", "o">>, <<"O", "H">>>>,
     <<<<"o", "k", "l", "a", "h", "o", "m", "a">>, <<"O", "K">>>>,
     <<<<"o", "r", "e", "g", "o", "n">>, <<"O", "R">>>>,
     <<<<"p", "e", "n", "n", "s", "y", "l", "v", "a", "n", "i", "a">>, <<"P", "A">>>>,
     <<<<"r", "h", "o", "d", "e", " ", "i", "s", "l", "a", "n", "d">>, <<"R", "I">>>>,
     <<<<"s", "o", "u", "t", "h", " ", "c", "a", "r", "o", "l", "i", "n", "a">>, <<"S", "C">>>>,
     <<<<"s", "o", "u", "t", "h", " ", "d", "a", "k", "o", "t", "a">>, <<"S", "D">>>>,
     <<<<"t", "e", "n", "n", "e", "s", "s", "e", "e">>, <<"T", "N">>>>,
     <<<<"t", "e", "x", "a", "s">>, <<"T", "X">>>>,
     <<<<"u", "t", "a", "h">>, <<"U", "T">>>>,
     <<<<"v", "e", "r", "m", "o", "n", "t">>, <<"V", "T">>>>,
     <<<<"v", "i", "r", "g", "i", "n", "i", "a">>, <<"V", "A">>>>,
     <<<<"w", "a", "s", "h", "i", "n", "g", "t", "o", "n">>, <<"W", "A">>>>,
     <<<<"w", "e", "s", "t", " ", "v", "i", "r", "g", "i", "n", "i", "a">>, <<"W", "V">>>>,
     <<<<"w", "i", "s", "c", "o", "n", "s", "i", "n">>, <<"W", "I">>>>,
     <<<<"w", "y", "o", "m", "i", "n", "g">>, <<"W", "Y">>>> >>

\* states.values()
StateAbbrevs == {states[k][2] : k \in DOMAIN states}

\* the loop over states.items(): the first table entry whose name is in
\* query_lower, None if there is none
StateByName(query_lower) ==
  LET hits == {k \in DOMAIN states : Contains(query_lower, states[k][1])}
  IN  IF hits = {} THEN Null ELSE Str(states[Min(hits)][2])

\* a \b boundary lies between positions i and i + 1 of s
WordBoundary(s, i) ==
  LET before == i >= 1 /\ IsWordChar(s[i])
      after  == i + 1 <= Len(s) /\ IsWordChar(s[i + 1])
  IN  before # after

\* re.search(r'\b([A-Z]{2})\b', query): group 1 of the leftmost match, <<>> if none
AbbrevMatch(q) ==
  LET hits == {i \in 1..(Len(q) - 1) :
                 /\ IsUpper(q[i]) /\ IsUpper(q[i + 1])
                 /\ WordBoundary(q, i - 1) /\ WordBoundary(q, i + 1)}
  IN  IF hits = {} THEN <<>> ELSE SubSeq(q, Min(hits), Min(hits) + 1)

\* lines 248-258: the state named in full, then overwritten by the first
\* two-letter upper-case token when that token is a state abbreviation
ResolveState(q) ==
  LET byName == StateByName(Lower(q))
      abbrev_match == AbbrevMatch(q)
  IN  IF abbrev_match # <<>> /\ abbrev_match \in StateAbbrevs
      THEN Str(abbrev_match)
      ELSE byName

\* (\w+)\s+county tried at position i: the end of group 1, 0 if no match
CountyMatchAt(s, i) ==
  IF ~IsWordChar(s[i]) THEN 0
  ELSE LET e == WordRunEnd(s, i)
           w == SpaceRunEnd(s, e + 1)
       IN  IF w > e /\ StartsWithAt(s, w + 1, <<"c", "o", "u", "n", "t", "y">>)
           THEN e ELSE 0

\* re.search(r'(\w+)\s+county', query_lower): group 1 title-cased, None if no match
ResolveCounty(query_lower) ==
  LET hits == {i \in 1..Len(query_lower) : CountyMatchAt(query_lower, i) > 0}
  IN  IF hits = {} THEN Null
      ELSE Str(Title(SubSeq(query_lower, Min(hits), CountyMatchAt(query_lower, Min(hits)))))

Location(state, county, city) ==
  [t |-> "dict", state |-> state, county |-> county, city |-> city]

_extract_location(q) ==
  LET state  == ResolveState(q)
      county == ResolveCounty(Lower(q))
  IN  Location(IF ~Truthy(state) THEN Str(DEFAULT_STATE) ELSE state,
               IF ~Truthy(county) THEN Str(DEFAULT_COUNTY) ELSE county,
               Null)

-----------------------------------------------------------------------------
(* QueryProcessor._fallback_parse                                          *)

SpillWords ==
  << <<"s", "p", "i", "l", "l">>,
     <<"s", "s", "o">>,
     <<"o", "v", "e", "r", "f", "l", "o", "w">>,
     <<"s", "e", "w", "a", "g", "e">> >>

RepeatWords ==
  << <<"r", "e", "p", "e", "a", "t">>,
     <<"c", "h", "r", "o", "n", "i", "c">>,
     <<"m", "u", "l", "t", "i", "p", "l", "e">>,
     <<"f", "r", "e", "q", "u", "e", "n", "t">> >>

WeatherWords ==
  << <<"w", "e", "a", "t", "h", "e", "r">>,
     <<"r", "a", "i", "n">>,
     <<"s", "t", "o", "r", "m">>,
     <<"c", "o", "r", "r", "e", "l", "a", "t">> >>

TrendWords ==
  << <<"t", "r", "e", "n", "d">>,
     <<"o", "v", "e", "r", " ", "t", "i", "m", "e">>,
     <<"h", "i", "s", "t", "o", "r", "y">> >>

SearchWords ==
  << <<"f", "i", "n", "d">>,
     <<"s", "e", "a", "r", "c", "h">>,
     <<"w", "h", "e", "r", "e", " ", "i", "s">> >>

\* the chain with the weather group tested before the repeat group
ClassifyQuery_weatherFirst(query_lower) ==
  IF AnyWordIn(query_lower, SpillWords) THEN "spill_analysis"
  ELSE IF AnyWordIn(query_lower, WeatherWords) THEN "weather_correlation"
  ELSE IF AnyWordIn(query_lower, RepeatWords) THEN "repeat_violators"
  ELSE IF AnyWordIn(query_lower, TrendWords) THEN "violation_trends"
  ELSE IF AnyWordIn(query_lower, SearchWords) THEN "facility_search"
  ELSE "general_overview"

\* lines 195-207: the keyword groups in the order the if / elif chain tests them
ClassifyQuery(query_lower) ==
  IF AnyWordIn(query_lower, SpillWords) THEN "spill_analysis"
  ELSE IF AnyWordIn(query_lower, RepeatWords) THEN "repeat_violators"
  ELSE IF AnyWordIn(query_lower, WeatherWords) THEN "weather_correlation"
  ELSE IF AnyWordIn(query_lower, TrendWords) THEN "violation_trends"
  ELSE IF AnyWordIn(query_lower, SearchWords) THEN "facility_search"
  ELSE "general_overview"

ParsedQuery(qt, loc, tr, ds, viz, flt, oq) ==
  [query_type |-> qt, location |-> loc, time_range |-> tr, data_sources |-> ds,
   visualization_type |-> viz, filters |-> flt, original_query |-> oq]

_fallback_parse(q, n) ==
  LET query_type == Tok(ClassifyQuery(Lower(q)))
      location   == _extract_location(q)
      time_range == _extract_time_range(q, n)
  IN  IF time_range.kind = "raise" THEN time_range
      ELSE Ok(ParsedQuery(query_type, location, time_range.v,
                          _infer_data_sources(query_type),
                          _infer_visualization(query_type),
                          EmptyDict, Str(q)))

-----------------------------------------------------------------------------
(* QueryProcessor._validate_and_enhance                                    *)

\* d.get(k) for a dict d
DictGet(d, k) == IF d.t = "dict" /\ k \in DOMAIN d THEN d[k] ELSE Missing

\* the defaults with the county default left out
LocationDefaults_noCounty(location) ==
  LET loc == IF ~Truthy(location) THEN EmptyDict ELSE location
  IN  IF ~IsDict(loc) THEN Raise("AttributeError")
      ELSE Ok(Location(
             IF ~Truthy(DictGet(loc, "state")) THEN Str(DEFAULT_STATE)
             ELSE DictGet(loc, "state"),
             DictGet(loc, "county"),
             DictGet(loc, "city")))

\* lines 107-112: the location with the configured defaults filled in;
\* AttributeError when the value under "location" has no .get
LocationDefaults(location) ==
  LET loc == IF ~Truthy(location) THEN EmptyDict ELSE location
  IN  IF ~IsDict(loc) THEN Raise("AttributeError")
      ELSE Ok(Location(
             IF ~Truthy(DictGet(loc, "state")) THEN Str(DEFAULT_STATE)
             ELSE DictGet(loc, "state"),
             IF ~Truthy(DictGet(loc, "county")) THEN Str(DEFAULT_COUNTY)
             ELSE DictGet(loc, "county"),
             DictGet(loc, "city")))

\* lines 115-117: parsed.get("time_range", {}) and the relative-time branch
RelativeTimeRange(given, n) ==
  LET time_range == IF given.t = "missing" THEN EmptyDict ELSE given
  IN  IF ~IsDict(time_range) THEN Raise("AttributeError")
      ELSE IF Truthy(DictGet(time_range, "relative"))
              /\ ~Truthy(DictGet(time_range, "start_date"))
      THEN IF DictGet(time_range, "relative").t # "str" THEN Raise("AttributeError")
           ELSE _parse_relative_time(DictGet(time_range, "relative").v, n)
      ELSE Ok(given)

\* lines 120-124: the default window of 365 * 3 days
DefaultTimeRange(time_range, n) ==
  IF ~Truthy(time_range) \/ ~Truthy(DictGet(time_range, "start_date"))
  THEN TimeRange(MinusDays(n, 365 * 3).v, FromOrdinal(n))
  ELSE time_range

\* lines 127-128
EnsureDataSources(parsed) ==
  IF ~Truthy(parsed.data_sources)
  THEN _infer_data_sources(IF parsed.query_type.t = "missing"
                           THEN Tok("general_overview") ELSE parsed.query_type)
  ELSE parsed.data_sources

\* lines 131-132
EnsureVisualization(parsed) ==
  IF ~Truthy(parsed.visualization_type)
  THEN _infer_visualization(IF parsed.query_type.t = "missing"
                            THEN Tok("general_overview") ELSE parsed.query_type)
  ELSE parsed.visualization_type

\* parsed is what json.loads returned
_validate_and_enhance(parsed, original_query, n) ==
  IF parsed.t # "dict" THEN Raise("TypeError")
  ELSE LET location == LocationDefaults(parsed.location)
           relative == RelativeTimeRange(parsed.time_range, n)
       IN  IF location.kind = "raise" THEN location
           ELSE IF relative.kind = "raise" THEN relative
           ELSE Ok(ParsedQuery(parsed.query_type,
                               location.v,
                               DefaultTimeRange(relative.v, n),
                               EnsureDataSources(parsed),
                               EnsureVisualization(parsed),
                               parsed.filters,
                               Str(original_query)))

-----------------------------------------------------------------------------
(* Inputs of process_query.                                                *)

\* the pieces query texts are built from: a keyword of each group, a state
\* name, a state abbreviation, a county, relative phrases and a bare year
Fragments ==
  << <<"s", "s", "o">>,
     <<"r", "e", "p", "e", "a", "t">>,
     <<"r", "a", "i", "n">>,
     <<"t", "r", "e", "n", "d">>,
     <<"f", "i", "n", "d">>,
     <<"O", "h", "i", "o">>,
     <<"L", "A">>,
     <<"L", "e", "e", " ", "c", "o", "u", "n", "t", "y">>,
     <<"l", "a", "s", "t", " ", "2", " ", "y", "e", "a", "r", "s">>,
     <<"l", "a", "s", "t", " ", "6", " ", "m", "o", "n", "t", "h", "s">>,
     <<"l", "a", "s", "t", " ", "3", " ", "w", "e", "e", "k", "s">>,
     <<"2", "0", "2", "0">>,
     <<"l", "a", "s", "t", " ", "5", "0", "0", "0", " ", "y", "e", "a", "r", "s">> >>

\* the texts of at most k fragments, joined by single spaces
RECURSIVE TextsOf(_)
TextsOf(k) ==
  IF k = 0 THEN {<<>>}
  ELSE TextsOf(k - 1) \cup
       {IF txt = <<>> THEN Fragments[i] ELSE txt \o <<" ">> \o Fragments[i] :
          txt \in TextsOf(k - 1), i \in DOMAIN Fragments}

\* str.upper()
Upper(s) ==
  LET f == [i \in 1..Len(s) |-> UpperChar(s[i])]
  IN  SubSeq(f, 1, Len(s))

\* each of the 50 state names alone, in lower, title and upper case
StateNameTexts ==
  UNION {{states[k][1], Title(states[k][1]), Upper(states[k][1])} : k \in DOMAIN states}

Texts == TextsOf(MaxFrags) \cup StateNameTexts

\* datetime.now() at the call
NowChoices == {ToOrdinal(2026, 11, 3)}

\* the JSON objects the model may answer with
ReplyQueryTypes ==
  {Missing, Tok("spill_analysis"), Tok("weather_correlation"),
   Tok("general_overview"), Tok("pollution_report")}

ReplyLocations ==
  {Missing, Scalar,
   Location(Null, Str(<<"H", "a", "r", "r", "i", "s">>), Null),
   Location(Str(<<"T", "X">>), Null, Null)}

ReplyTimeRanges ==
  {Missing, Null, EmptyDict,
   [t |-> "dict", start_date |-> Date(2020, 1, 1), end_date |-> Date(2024, 1, 1),
    relative |-> Null],
   [t |-> "dict", start_date |-> Date(2024, 1, 1), end_date |-> Date(2020, 1, 1),
    relative |-> Null],
   [t |-> "dict", start_date |-> Date(2024, 1, 1), end_date |-> Null,
    relative |-> Str(<<"l", "a", "s", "t", " ", "2", " ", "y", "e", "a", "r", "s">>)],
   [t |-> "dict", start_date |-> Null, end_date |-> Null,
    relative |-> Str(<<"l", "a", "s", "t", " ", "6", " ", "m", "o", "n", "t", "h", "s">>)],
   [t |-> "dict", start_date |-> Null, end_date |-> Null,
    relative |-> Str(<<"2", " ", "y", "e", "a", "r", "s", " ", "b", "e", "f", "o", "r", "e", " ", "2", "0", "2", "0">>)],
   [t |-> "dict", start_date |-> Null, end_date |-> Null, relative |-> Scalar]}

ReplySources == {Missing, List(<<"noaa">>)}

ReplyVisualizations == {Missing, Tok("heatmap")}

\* a well-formed answer
BaseReply ==
  [t |-> "dict", query_type |-> Tok("spill_analysis"),
   location |-> Location(Str(<<"T", "X">>), Str(<<"H", "a", "r", "r", "i", "s">>), Null),
   time_range |-> [t |-> "dict", start_date |-> Date(2020, 1, 1),
                   end_date |-> Date(2024, 1, 1), relative |-> Null],
   data_sources |-> List(<<"epa">>), visualization_type |-> Tok("map"),
   filters |-> Missing]

\* the answers: the well-formed one with its query type, data sources and
\* visualization varied, with its location varied, with its time range varied
ReplyObjects ==
  {[BaseReply EXCEPT !.query_type = qt, !.data_sources = ds, !.visualization_type = viz] :
     qt \in ReplyQueryTypes, ds \in ReplySources, viz \in ReplyVisualizations}
    \cup {[BaseReply EXCEPT !.location = loc] : loc \in ReplyLocations}
    \cup {[BaseReply EXCEPT !.time_range = tr] : tr \in ReplyTimeRanges}

\* what chat.completions.create produces: an exception, content that is no
\* JSON, JSON that is no object, or a JSON object
Replies ==
  {[kind |-> "raise"], [kind |-> "text"], [kind |-> "json", v |-> Scalar]}
    \cup {[kind |-> "json", v |-> o] : o \in ReplyObjects}

NoReply == [kind |-> "none"]
NoResult == [kind |-> "none"]

-----------------------------------------------------------------------------
(* QueryProcessor.process_query                                            *)

\* lines 93-94: json.loads of the content, then _validate_and_enhance
ParseReply(r, q, n) ==
  IF r.kind = "raise" THEN Raise("APIError")
  ELSE IF r.kind = "text" THEN Raise("JSONDecodeError")
  ELSE _validate_and_enhance(r.v, q, n)

\* the try block with one more attempt after a failure
Respond_retry(r, q, n, c) ==
  LET attempt == ParseReply(r, q, n)
  IN  IF attempt.kind = "raise" /\ c < 2
      THEN [pc |-> "calling", calls |-> c + 1, result |-> NoResult]
      ELSE IF attempt.kind = "raise"
      THEN [pc |-> "returned", calls |-> c, result |-> _fallback_parse(q, n)]
      ELSE [pc |-> "returned", calls |-> c, result |-> attempt]

\* lines 82-99: the try block around the single create call; c is the number of
\* create calls made so far
Respond(r, q, n, c) ==
  LET attempt == ParseReply(r, q, n)
  IN  IF attempt.kind = "raise"
      THEN [pc |-> "returned", calls |-> c, result |-> _fallback_parse(q, n)]
      ELSE [pc |-> "returned", calls |-> c, result |-> attempt]

\* lines 32-33: no client, the fallback parser answers
ProcessQueryNoClient ==
  /\ pc = "idle"
  /\ ~client
  /\ \E q \in Texts, n \in NowChoices :
       /\ query' = q
       /\ now' = n
       /\ result' = _fallback_parse(q, n)
  /\ pc' = "returned"
  /\ UNCHANGED <<client, calls, reply>>
  /\ UNCHANGED aeVars
  /\ UNCHANGED igVars
  /\ UNCHANGED <<ccVars, appVars>>

\* lines 83-91: the request is sent to the model
ProcessQueryCreate ==
  /\ pc = "idle"
  /\ client
  /\ \E q \in Texts, n \in NowChoices :
       /\ query' = q
       /\ now' = n
  /\ calls' = calls + 1
  /\ pc' = "calling"
  /\ UNCHANGED <<client, reply, result>>
  /\ UNCHANGED aeVars
  /\ UNCHANGED igVars
  /\ UNCHANGED <<ccVars, appVars>>

\* lines 93-99: the call returned or raised
ProcessQueryReply ==
  /\ pc = "calling"
  /\ \E r \in Replies :
       LET next == Respond(r, query, now, calls)
       IN  /\ pc' = next.pc
           /\ calls' = next.calls
           /\ result' = next.result
           /\ reply' = r
  /\ UNCHANGED <<client, query, now>>
  /\ UNCHANGED aeVars
  /\ UNCHANGED igVars
  /\ UNCHANGED <<ccVars, appVars>>

\* the caller takes the value (or the exception) and may ask again
ProcessQueryDone ==
  /\ pc = "returned"
  /\ pc' = "idle"
  /\ query' = <<>>
  /\ now' = 0
  /\ calls' = 0
  /\ reply' = NoReply
  /\ result' = NoResult
  /\ UNCHANGED client
  /\ UNCHANGED aeVars
  /\ UNCHANGED igVars
  /\ UNCHANGED <<ccVars, appVars>>

-----------------------------------------------------------------------------
(* AnalysisEngine: tables.                                                 *)
(*                                                                         *)
(* A DataFrame is its set of column names and its rows in order; a row is  *)
(* a function from the column names to cell values.  Coordinates and       *)
(* precipitation are in hundredths (of a degree, of an inch).              *)

Num(n) == [t |-> "num", n |-> n]             \* a number cell
Ts(ord) == [t |-> "ts", ord |-> ord]         \* a pandas Timestamp, by date ordinal
NaT == [t |-> "nat"]                         \* the missing Timestamp

Table(columns, rows) == [columns |-> columns, rows |-> rows]

\* DataFrame.empty: no rows or no columns
IsEmpty(df) == df.rows = <<>> \/ df.columns = {}

\* pd.to_datetime of one cell: a date string is parsed, None becomes NaT
to_datetime(cell) ==
  CASE cell.t = "date" -> Ts(ToOrdinal(cell.y, cell.m, cell.d))
    [] cell.t = "ts" -> cell
    [] OTHER -> NaT

\* df[name] = cells, one cell per row: the column is added or overwritten
WithColumn(df, name, cells) ==
  Table(df.columns \cup {name},
        [i \in DOMAIN df.rows |->
           [c \in df.columns \cup {name} |->
              IF c = name THEN cells[i] ELSE df.rows[i][c]]])

\* df.copy()
Copy(df) == Table(df.columns, df.rows)

IsNull(cell) == cell.t \in {"null", "nat"}

-----------------------------------------------------------------------------
(* AnalysisEngine: arithmetic of the statistics.                           *)

\* f[lo] + ... + f[hi], summed by halves
RECURSIVE SumRange(_, _, _)
SumRange(f, lo, hi) ==
  IF lo > hi THEN 0
  ELSE IF lo = hi THEN f[lo]
  ELSE LET mid == (lo + hi) \div 2
       IN  SumRange(f, lo, mid) + SumRange(f, mid + 1, hi)

\* f[1] + ... + f[n]
SumOver(f, n) == SumRange(f, 1, n)

\* the elements of a set of numbers in ascending order
RECURSIVE SortedSeq(_)
SortedSeq(S) ==
  IF S = {} THEN <<>>
  ELSE LET m == Min(S) IN <<m>> \o SortedSeq(S \ {m})

Max(S) == CHOOSE x \in S : \A y \in S : y <= x

\* groupby(key).size(): the number of rows of each key value
GroupSizes(keys) ==
  [k \in Range(keys) |-> Cardinality({i \in DOMAIN keys : keys[i] = k})]

\* round(a / b) for a >= 0, b > 0: the nearest integer, a tie to the even one
RoundDiv(a, b) ==
  LET q == a \div b
      r == a % b
  IN  IF 2 * r > b \/ (2 * r = b /\ q % 2 = 1) THEN q + 1 ELSE q

\* the square of the two-sided 5% point of Student's t with df degrees of
\* freedom, in thousandths: the p-value of a slope is above 0.05 exactly when
\* the squared t statistic is below it
FCritical ==
  <<161448, 18513, 10128, 7709, 6608, 5987, 5591, 5318, 5117, 4965,
    4844, 4747, 4667, 4600, 4543, 4494, 4451, 4414, 4381, 4351>>

\* stats.linregress(arange(n), y) for n >= 3: the sign of the slope and
\* whether p_value > 0.05.  With ssxm, ssxym, ssym the (co)variances times
\* n * n, r * r = ssxym^2 / (ssxm * ssym), r = 0 for a constant y, and
\* t * t = df * r * r / (1 - r * r)
linregress(y) ==
  LET n == Len(y)
      sx == SumOver([i \in 1..n |-> i - 1], n)
      sy == SumOver(y, n)
      sxx == SumOver([i \in 1..n |-> (i - 1) * (i - 1)], n)
      sxy == SumOver([i \in 1..n |-> (i - 1) * y[i]], n)
      syy == SumOver([i \in 1..n |-> y[i] * y[i]], n)
      ssxm == n * sxx - sx * sx
      ssxym == n * sxy - sx * sy
      ssym == n * syy - sy * sy
  IN  [slope_positive |-> ssxym > 0,
       p_above_005 |->
         IF ssym = 0 THEN TRUE
         ELSE ssxym * ssxym * (n - 2) * 1000
                < FCritical[n - 2] * (ssxm * ssym - ssxym * ssxym)]

-----------------------------------------------------------------------------
(* AnalysisEngine.analyze_spill_patterns                                   *)

\* pd.to_datetime(df["violation_date"]): the parsed column, one cell per row
DateOfRow(df) == [i \in DOMAIN df.rows |-> to_datetime(df.rows[i]["violation_date"])]

\* _get_date_range: {} without a date column; min and max of the dates
\* otherwise, and NaT.strftime raises when every date is missing
_get_date_range(df) ==
  LET date_col == IF "violation_date" \in df.columns THEN "violation_date" ELSE "date"
      dates == {to_datetime(df.rows[i][date_col]) : i \in DOMAIN df.rows}
      valid == {d.ord : d \in {x \in dates : x.t = "ts"}}
  IN  IF date_col \notin df.columns THEN Ok([present |-> FALSE])
      ELSE IF valid = {} THEN Raise("ValueError")
      ELSE Ok([present |-> TRUE,
               start |-> FromOrdinal(Min(valid)),
               end |-> FromOrdinal(CHOOSE x \in valid : \A y \in valid : y <= x)])

\* the calendar date of each row of df that has one in its "date" column;
\* groupby leaves the rows with a missing key out
RowDates(df) ==
  [i \in {j \in DOMAIN df.rows : df.rows[j]["date"].t = "ts"} |->
     FromOrdinal(df.rows[i]["date"].ord)]

\* line 80: the sizes of the calendar-month groups (dt.to_period("M")), in
\* the order of the months
MonthlySizes(df) ==
  LET d == RowDates(df)
      sizes == GroupSizes([i \in DOMAIN d |-> d[i].y * 12 + d[i].m])
      periods == SortedSeq(DOMAIN sizes)
  IN  [j \in 1..Len(periods) |-> sizes[periods[j]]]

\* _calculate_trend with the length test of line 81 off by one
_calculate_trend_four(df) ==
  LET monthly == MonthlySizes(df)
      fit == linregress(monthly)
  IN  IF Len(monthly) <= 3 THEN "insufficient_data"
      ELSE IF fit.p_above_005 THEN "stable"
      ELSE IF fit.slope_positive THEN "increasing"
      ELSE "decreasing"

_calculate_trend(df) ==
  LET monthly == MonthlySizes(df)
      fit == linregress(monthly)
  IN  IF Len(monthly) < 3 THEN "insufficient_data"
      ELSE IF fit.p_above_005 THEN "stable"
      ELSE IF fit.slope_positive THEN "increasing"
      ELSE "decreasing"

\* _analyze_temporal_patterns; idxmax is the first of the months with the
\* largest size
_analyze_temporal_patterns(df) ==
  LET d == RowDates(df)
      by_month == GroupSizes([i \in DOMAIN d |-> d[i].m])
      largest == {m \in DOMAIN by_month :
                    \A k \in DOMAIN by_month : by_month[k] <= by_month[m]}
  IN  [by_month |-> by_month,
       by_year |-> GroupSizes([i \in DOMAIN d |-> d[i].y]),
       by_quarter |-> GroupSizes([i \in DOMAIN d |-> (d[i].m - 1) \div 3 + 1]),
       peak_month |-> Min(largest),
       trend |-> _calculate_trend(df)]

\* rows with both coordinates present: dropna(subset=["latitude", "longitude"])
ValidCoords(df) ==
  {i \in DOMAIN df.rows :
     ~IsNull(df.rows[i]["latitude"]) /\ ~IsNull(df.rows[i]["longitude"])}

\* _analyze_spatial_patterns: the keys of the facet; _identify_hotspots
\* aggregates the facility_name column, a KeyError when the table has none
_analyze_spatial_patterns(df) ==
  IF Cardinality(ValidCoords(df)) < 2 THEN Ok({"clusters"})
  ELSE IF "facility_name" \notin df.columns THEN Raise("KeyError")
  ELSE Ok({"center", "spread", "hotspots"})

\* df[col].value_counts().to_dict(): the number of rows of each value, the
\* missing values left out
value_counts(df, col) ==
  GroupSizes([i \in {j \in DOMAIN df.rows : ~IsNull(df.rows[j][col])} |->
                df.rows[i][col].v])

\* the entries of counts that are among the n largest
Largest(counts, n) ==
  LET top == {f \in DOMAIN counts :
                Cardinality({g \in DOMAIN counts : counts[g] > counts[f]}) < n}
  IN  [f \in top |-> counts[f]]

\* _analyze_by_facility
_analyze_by_facility(df) ==
  LET facility_counts == value_counts(df, "facility_name")
  IN  [total_facilities |-> Cardinality(DOMAIN facility_counts),
       top_violators |-> Largest(facility_counts, 10),
       single_incident_facilities |->
         Cardinality({f \in DOMAIN facility_counts : facility_counts[f] = 1}),
       repeat_violator_count |->
         Cardinality({f \in DOMAIN facility_counts : facility_counts[f] > 1})]

\* the facets of lines 27-46, by the columns present
SpillFacets(df) ==
  {"total_incidents", "date_range"}
    \cup (IF "violation_date" \in df.columns THEN {"temporal"} ELSE {})
    \cup (IF {"latitude", "longitude"} \subseteq df.columns THEN {"spatial"} ELSE {})
    \cup (IF "severity" \in df.columns THEN {"severity"} ELSE {})
    \cup (IF "violation_type" \in df.columns THEN {"types"} ELSE {})
    \cup (IF "facility_name" \in df.columns THEN {"by_facility"} ELSE {})

\* line 29: violations["date"] = pd.to_datetime(violations["violation_date"]),
\* an assignment to the DataFrame the caller passed in
AssignDateColumn(df) ==
  IF "violation_date" \in df.columns THEN WithColumn(df, "date", DateOfRow(df)) ELSE df

\* a result that holds the error facet only
ErrorResult(message) == [k \in {"error"} |-> message]

\* the call: the table as the call leaves it, and what the call returns, a
\* dict from the facet names to the facets
analyze_spill_patterns(v, w) ==
  IF IsEmpty(v)
  THEN [violations |-> v, weather |-> w,
        out |-> Ok(ErrorResult("No violation data available"))]
  ELSE LET date_range == _get_date_range(v)
           dated == AssignDateColumn(v)
           spatial == IF {"latitude", "longitude"} \subseteq dated.columns
                      THEN _analyze_spatial_patterns(dated) ELSE Ok({})
       IN  IF date_range.kind = "raise"
           THEN [violations |-> v, weather |-> w, out |-> date_range]
           ELSE IF spatial.kind = "raise"
           THEN [violations |-> dated, weather |-> w, out |-> spatial]
           ELSE [violations |-> dated, weather |-> w,
                 out |-> Ok([k \in SpillFacets(dated) |->
                    CASE k = "total_incidents" -> Len(v.rows)
                      [] k = "date_range" -> date_range.v
                      [] k = "temporal" -> _analyze_temporal_patterns(dated)
                      [] k = "spatial" -> spatial.v
                      [] k = "severity" -> value_counts(dated, "severity")
                      [] k = "types" -> value_counts(dated, "violation_type")
                      [] k = "by_facility" -> _analyze_by_facility(dated)])]

-----------------------------------------------------------------------------
(* AnalysisEngine.analyze_repeat_violators                                 *)

\* the columns lines 264-272 read from the copy
RepeatColumns == {"violation_date", "violation_type", "latitude", "longitude"}

\* line 268, ("date", "count"): for each facility name the number of its rows
\* that have a date; count leaves the missing dates out
FacilityCounts(df) ==
  LET names == {df.rows[i]["facility_name"].v :
                  i \in {j \in DOMAIN df.rows : ~IsNull(df.rows[j]["facility_name"])}}
  IN  [f \in names |->
         Cardinality({i \in DOMAIN df.rows :
                        /\ df.rows[i]["facility_name"] = Tok(f)
                        /\ df.rows[i]["date"].t = "ts"})]

\* the categories with chronic starting above 10
Category_chronicAbove(x) ==
  IF x > 10 THEN "chronic" ELSE IF x >= 3 THEN "repeat" ELSE "occasional"

\* lines 291-293
Category(x) ==
  IF x >= 10 THEN "chronic" ELSE IF x >= 3 THEN "repeat" ELSE "occasional"

\* lines 267-293: one record per facility.  first_violation and
\* last_violation are date ordinals, violations_per_year is in hundredths;
\* a facility with no dated row has NaT / NaN there.  The primary violation
\* type and the first coordinates of the records are left out.
FacilityStats(df) ==
  LET counts == FacilityCounts(df)
  IN  [f \in DOMAIN counts |->
         LET dates == {df.rows[i]["date"].ord :
                         i \in {j \in DOMAIN df.rows :
                                  /\ df.rows[j]["facility_name"] = Tok(f)
                                  /\ df.rows[j]["date"].t = "ts"}}
             active_days == IF dates = {} THEN 0 ELSE Max(dates) - Min(dates)
         IN  [facility_name |-> f,
              violation_count |-> counts[f],
              first_violation |-> IF dates = {} THEN NaT ELSE Ts(Min(dates)),
              last_violation |-> IF dates = {} THEN NaT ELSE Ts(Max(dates)),
              active_days |-> IF dates = {} THEN Null ELSE Num(active_days),
              violations_per_year |->
                IF dates = {} THEN Null
                ELSE IF active_days <= 365 THEN Num(100 * counts[f])
                ELSE Num(RoundDiv(100 * counts[f] * 365, active_days)),
              category |-> Category(counts[f])]]

\* nlargest(n, "violation_count").to_dict("records"), as a set of records
LargestByCount(facility_stats, n) ==
  {facility_stats[f] : f \in
     {g \in DOMAIN facility_stats :
        Cardinality({h \in DOMAIN facility_stats :
           facility_stats[h].violation_count > facility_stats[g].violation_count}) < n}}

\* nlargest(n, "violations_per_year").to_dict("records"), as a set of
\* records; NaN sorts below every number
LargestByFrequency(facility_stats, n) ==
  LET rate(g) == IF facility_stats[g].violations_per_year.t = "num"
                 THEN facility_stats[g].violations_per_year.n ELSE -1
  IN  {facility_stats[f] : f \in
         {g \in DOMAIN facility_stats :
            Cardinality({h \in DOMAIN facility_stats : rate(h) > rate(g)}) < n}}

analyze_repeat_violators(v, w) ==
  IF IsEmpty(v) \/ "facility_name" \notin v.columns
  THEN [violations |-> v, weather |-> w,
        out |-> Ok(ErrorResult("No facility data available"))]
  ELSE LET work == Copy(v)
       IN  IF ~(RepeatColumns \subseteq work.columns)
           THEN [violations |-> v, weather |-> w, out |-> Raise("KeyError")]
           ELSE LET dated == WithColumn(work, "date", DateOfRow(work))
                    facility_stats == FacilityStats(dated)
                    InCategory(c) ==
                      Cardinality({f \in DOMAIN facility_stats :
                                     facility_stats[f].category = c})
                IN  [violations |-> v, weather |-> w,
                     out |-> Ok([total_facilities |-> Cardinality(DOMAIN facility_stats),
                                 chronic_violators |-> InCategory("chronic"),
                                 repeat_violators |-> InCategory("repeat"),
                                 occasional_violators |-> InCategory("occasional"),
                                 top_violators |-> LargestByCount(facility_stats, 10),
                                 highest_frequency |-> LargestByFrequency(facility_stats, 5)])]

-----------------------------------------------------------------------------
(* AnalysisEngine.analyze_weather_correlation                              *)

\* the merge as an inner join: the weather rows of days with a violation
MergedRows_inner(v, w) ==
  LET Counted(i) ==
        Cardinality({j \in DOMAIN v.rows :
                       /\ to_datetime(v.rows[j]["violation_date"]).t = "ts"
                       /\ to_datetime(v.rows[j]["violation_date"]) = to_datetime(w.rows[i]["date"])})
      left == [i \in DOMAIN w.rows |->
                 [date |-> to_datetime(w.rows[i]["date"]),
                  precipitation_inches |->
                    IF "precipitation_inches" \in w.columns
                    THEN w.rows[i]["precipitation_inches"] ELSE Missing,
                  violation_count |-> Counted(i)]]
      Matched(r) == r.violation_count > 0
  IN  SelectSeq(left, Matched)

\* lines 184-190: one merged row per weather row, with the number of
\* violations dated that day
MergedRows(v, w) ==
  [i \in DOMAIN w.rows |->
     [date |-> to_datetime(w.rows[i]["date"]),
      precipitation_inches |->
        IF "precipitation_inches" \in w.columns
        THEN w.rows[i]["precipitation_inches"] ELSE Missing,
      violation_count |->
        Cardinality({j \in DOMAIN v.rows :
                       /\ to_datetime(v.rows[j]["violation_date"]).t = "ts"
                       /\ to_datetime(v.rows[j]["violation_date"]) = to_datetime(w.rows[i]["date"])})]]

\* days with a precipitation value and a violation count (line 202)
ValidPairs(w) ==
  {i \in DOMAIN w.rows : ~IsNull(w.rows[i]["precipitation_inches"])}

\* line 216: the days whose 3-day rolling sum exists, the day and the two
\* before it all having a precipitation value
ValidRolling(w) ==
  {i \in DOMAIN w.rows :
     i >= 3 /\ \A j \in (i - 2)..i : ~IsNull(w.rows[j]["precipitation_inches"])}

\* line 236, in hundredths of an inch, and the key of each threshold (line 247)
thresholds == <<10, 50, 100, 200>>
ThresholdKey ==
  <<"above_0.1_inches", "above_0.5_inches", "above_1.0_inches", "above_2.0_inches">>

\* the rows at or above the threshold, with `>` for `>=`
AboveThreshold_strict(merged, threshold) ==
  {i \in DOMAIN merged :
     /\ merged[i].precipitation_inches.t = "num"
     /\ merged[i].precipitation_inches.n > threshold}

\* line 240: a missing value compares false
AboveThreshold(merged, threshold) ==
  {i \in DOMAIN merged :
     /\ merged[i].precipitation_inches.t = "num"
     /\ merged[i].precipitation_inches.n >= threshold}

\* line 241
BelowThreshold(merged, threshold) ==
  {i \in DOMAIN merged :
     /\ merged[i].precipitation_inches.t = "num"
     /\ merged[i].precipitation_inches.n < threshold}

\* the violations of the rows in S
ViolationsIn(merged, S) ==
  SumOver([i \in DOMAIN merged |-> IF i \in S THEN merged[i].violation_count ELSE 0],
          Len(merged))

\* lines 244-251 for one threshold; avg_violations and relative_risk are in
\* hundredths, rate_below is replaced by 0.01 when it is smaller
ThresholdEntry(merged, threshold) ==
  LET above == AboveThreshold(merged, threshold)
      below == BelowThreshold(merged, threshold)
      na == Cardinality(above)
      nb == Cardinality(below)
      va == ViolationsIn(merged, above)
      vb == ViolationsIn(merged, below)
  IN  [days |-> na,
       avg_violations |-> RoundDiv(100 * va, na),
       relative_risk |->
         IF 100 * vb > nb THEN RoundDiv(100 * va * nb, na * vb)
         ELSE RoundDiv(10000 * va, na)]

\* _analyze_precipitation_thresholds: a threshold with an empty side is skipped
_analyze_precipitation_thresholds(merged) ==
  LET kept == {j \in DOMAIN thresholds :
                 /\ AboveThreshold(merged, thresholds[j]) # {}
                 /\ BelowThreshold(merged, thresholds[j]) # {}}
  IN  [k \in {ThresholdKey[j] : j \in kept} |->
         ThresholdEntry(merged, thresholds[CHOOSE j \in kept : ThresholdKey[j] = k])]

\* what lines 208-212 and 222-226 store: the coefficient, the p-value and
\* the significance are not computed here
Correlation == [t |-> "correlation"]

\* the facets with the test of line 203 passing at ten days
WeatherFacets_tenDays(w) ==
  {"data_points", "threshold_analysis"}
    \cup (IF Cardinality(ValidPairs(w)) >= 10
          THEN {"precipitation_correlation"} ELSE {})
    \cup (IF Cardinality(ValidPairs(w)) >= 10 /\ Cardinality(ValidRolling(w)) > 10
          THEN {"precipitation_3day_correlation"} ELSE {})

\* the facets of lines 192-230 for a weather table with a precipitation column
WeatherFacets(w) ==
  {"data_points", "threshold_analysis"}
    \cup (IF Cardinality(ValidPairs(w)) > 10
          THEN {"precipitation_correlation"} ELSE {})
    \cup (IF Cardinality(ValidPairs(w)) > 10 /\ Cardinality(ValidRolling(w)) > 10
          THEN {"precipitation_3day_correlation"} ELSE {})

\* the test of line 167 on the violations only
InsufficientData_violationsOnly(v, w) == IsEmpty(v)

\* line 167
InsufficientData(v, w) == IsEmpty(v) \/ IsEmpty(w)

analyze_weather_correlation(v, w) ==
  IF InsufficientData(v, w)
  THEN [violations |-> v, weather |-> w,
        out |-> Ok(ErrorResult("Insufficient data for correlation analysis"))]
  ELSE IF "violation_date" \notin Copy(v).columns \/ "date" \notin Copy(w).columns
  THEN [violations |-> v, weather |-> w, out |-> Raise("KeyError")]
  ELSE LET merged == MergedRows(Copy(v), Copy(w))
       IN  [violations |-> v, weather |-> w,
            out |-> Ok(IF "precipitation_inches" \notin w.columns
                       THEN [k \in {"data_points"} |-> Len(merged)]
                       ELSE [k \in WeatherFacets(w) |->
                               CASE k = "data_points" -> Len(merged)
                                 [] k = "threshold_analysis" ->
                                      _analyze_precipitation_thresholds(merged)
                                 [] OTHER -> Correlation])]

-----------------------------------------------------------------------------
(* Inputs of the analysis calls.                                           *)

ViolationColumns ==
  {"violation_date", "facility_name", "latitude", "longitude", "severity",
   "violation_type"}

\* the sets of columns a violations table may come with
ViolationColumnChoices ==
  {ViolationColumns,
   ViolationColumns \ {"violation_date"},
   ViolationColumns \ {"facility_name"},
   {"violation_date", "facility_name"}}

\* the rows violations tables are built from
ViolationRows ==
  {[violation_date |-> Date(2024, 1, 15), facility_name |-> Tok("Plant A"),
    latitude |-> Num(3050), longitude |-> Num(-8774),
    severity |-> Tok("high"), violation_type |-> Tok("SSO")],
   [violation_date |-> Date(2024, 3, 2), facility_name |-> Tok("Plant B"),
    latitude |-> Null, longitude |-> Null,
    severity |-> Tok("low"), violation_type |-> Tok("Effluent")],
   [violation_date |-> Null, facility_name |-> Tok("Plant A"),
    latitude |-> Num(3051), longitude |-> Num(-8774),
    severity |-> Tok("high"), violation_type |-> Tok("SSO")]}

WeatherColumnChoices ==
  {{"date", "precipitation_inches"}, {"date"}, {"precipitation_inches"}}

WeatherRows ==
  {[date |-> Date(2024, 1, 15), precipitation_inches |-> Num(120)],
   [date |-> Date(2024, 1, 16), precipitation_inches |-> Num(0)]}

\* the sequences of at most k elements of S
RECURSIVE SeqsUpTo(_, _)
SeqsUpTo(S, k) ==
  IF k = 0 THEN {<<>>}
  ELSE SeqsUpTo(S, k - 1) \cup {Append(s, x) : s \in SeqsUpTo(S, k - 1), x \in S}

\* the tables with the given column sets and rows
TablesOf(columnChoices, rowChoices) ==
  {Table(cols, [i \in DOMAIN rows |-> [c \in cols |-> rows[i][c]]]) :
     cols \in columnChoices, rows \in SeqsUpTo(rowChoices, MaxRows)}

ViolationTables == TablesOf(ViolationColumnChoices, ViolationRows)
WeatherTables == TablesOf(WeatherColumnChoices, WeatherRows)

\* a violation of the facility, dated the 15th of the j-th month from
\* January 2024 on
MonthlyRow(name, j) ==
  [violation_date |-> Date(2024 + (j - 1) \div 12, ((j - 1) % 12) + 1, 15),
   facility_name |-> Tok(name),
   latitude |-> Num(3050), longitude |-> Num(-8774),
   severity |-> Tok("high"), violation_type |-> Tok("SSO")]

\* counts[j] violations of one facility in the j-th month, for each j
RECURSIVE SeriesRows(_)
SeriesRows(counts) ==
  IF counts = <<>> THEN <<>>
  ELSE LET j == Len(counts)
       IN  SeriesRows(SubSeq(counts, 1, j - 1))
             \o SubSeq([i \in 1..MaxPerMonth |-> MonthlyRow("Plant A", j)], 1, counts[j])

\* the violations tables with given monthly counts over at most MaxMonths months
SeriesTables ==
  {Table(ViolationColumns, SeriesRows(counts)) :
     counts \in SeqsUpTo(0..MaxPerMonth, MaxMonths)}

\* one violation a month for n months
MonthlyRun(name, n) == SubSeq([j \in 1..MaxRun |-> MonthlyRow(name, j)], 1, n)

\* the violations tables of two facilities with one violation a month each
RunTables ==
  {Table(ViolationColumns, MonthlyRun("Plant A", a) \o MonthlyRun("Plant B", b)) :
     a \in 0..MaxRun, b \in 0..MaxRun}

\* a weather table and a violations table are paired with these
PairedWeather ==
  Table({"date", "precipitation_inches"},
        <<[date |-> Date(2024, 1, 15), precipitation_inches |-> Num(120)],
          [date |-> Date(2024, 1, 16), precipitation_inches |-> Num(0)]>>)

PairedViolations ==
  {Table(ViolationColumns, <<r>>) : r \in ViolationRows}

\* the first day of the daily weather tables
FirstDay == ToOrdinal(2024, 1, 9)

\* the precipitation of the i-th day, in hundredths of an inch
DailyPrecipitation == <<0, 120, 30>>

\* n days with a precipitation value, then k days without one
DailyTable(n, k) ==
  Table({"date", "precipitation_inches"},
        [i \in 1..(n + k) |->
           [date |-> Ts(FirstDay + i - 1),
            precipitation_inches |->
              IF i <= n THEN Num(DailyPrecipitation[(i % 3) + 1]) ELSE Null]])

DailyTables == {DailyTable(n, k) : n \in 0..MaxDays, k \in 0..1}

\* the precipitation cells around the four thresholds
PrecipitationCells ==
  {Null, Num(0), Num(9), Num(10), Num(50), Num(100), Num(200)}

ThresholdTables ==
  TablesOf({{"date", "precipitation_inches"}},
           {[date |-> Date(2024, 1, 15), precipitation_inches |-> p] :
              p \in PrecipitationCells})

\* a wet spell: n days of one inch of rain, the first with a violation,
\* then a dry day
WetSpellLengths == {1, 2, 99, 100}

WetSpell(n) ==
  Table({"date", "precipitation_inches"},
        [i \in 1..(n + 1) |->
           [date |-> Ts(ToOrdinal(2024, 1, 15) + i - 1),
            precipitation_inches |-> IF i <= n THEN Num(100) ELSE Num(0)]])

\* the pairs of tables the analyses are called with
TablePairs ==
  (ViolationTables \X WeatherTables)
    \cup ((SeriesTables \cup RunTables) \X {PairedWeather})
    \cup (PairedViolations \X (DailyTables \cup ThresholdTables))
    \cup {<<Table(ViolationColumns, <<MonthlyRow("Plant A", 1)>>), WetSpell(n)>> :
            n \in WetSpellLengths}

-----------------------------------------------------------------------------
(* The analysis calls as steps: the caller holds the two tables, the call  *)
(* runs to its return (or its exception), the caller takes the result.     *)

\* the call of `name` is made with tables v and w and ends as `after` says
CallEnds(name, v, w, after) ==
  /\ called' = name
  /\ snapshot' = <<v, w>>
  /\ violations' = after.violations
  /\ weather' = after.weather
  /\ analysis' = after.out

AnalyzeSpillPatterns ==
  /\ apc = "idle"
  /\ \E p \in TablePairs :
       CallEnds("analyze_spill_patterns", p[1], p[2],
                analyze_spill_patterns(p[1], p[2]))
  /\ apc' = "returned"
  /\ UNCHANGED qpVars
  /\ UNCHANGED igVars
  /\ UNCHANGED <<ccVars, appVars>>

AnalyzeRepeatViolators ==
  /\ apc = "idle"
  /\ \E p \in TablePairs :
       CallEnds("analyze_repeat_violators", p[1], p[2],
                analyze_repeat_violators(p[1], p[2]))
  /\ apc' = "returned"
  /\ UNCHANGED qpVars
  /\ UNCHANGED igVars
  /\ UNCHANGED <<ccVars, appVars>>

AnalyzeWeatherCorrelation ==
  /\ apc = "idle"
  /\ \E p \in TablePairs :
       CallEnds("analyze_weather_correlation", p[1], p[2],
                analyze_weather_correlation(p[1], p[2]))
  /\ apc' = "returned"
  /\ UNCHANGED qpVars
  /\ UNCHANGED igVars
  /\ UNCHANGED <<ccVars, appVars>>

AnalysisDone ==
  /\ apc = "returned"
  /\ apc' = "idle"
  /\ called' = "none"
  /\ violations' = Table({}, <<>>)
  /\ weather' = Table({}, <<>>)
  /\ snapshot' = <<Table({}, <<>>), Table({}, <<>>)>>
  /\ analysis' = NoResult
  /\ UNCHANGED qpVars
  /\ UNCHANGED igVars
  /\ UNCHANGED <<ccVars, appVars>>

-----------------------------------------------------------------------------
(* InsightGenerator: values.                                               *)
(*                                                                         *)
(* An AnalysisResult and a location are dicts: records of their keys, the  *)
(* empty dict being EmptyDict.                                             *)
(* A dict whose order matters (top_violators, threshold_analysis) is the   *)
(* sequence of its (key, value) pairs.  A formatted string is its format   *)
(* and the values put into it.  Coefficients are in thousandths, relative  *)
(* risks in hundredths.                                                    *)

\* d.get(k, default)
Get(d, k, default) == IF k \in DOMAIN d THEN d[k] ELSE default

\* f"...": the format and the values formatted into it
Text(format, args) == [text |-> format, args |-> args]

\* the item appended when the condition holds
When(cond, item) == IF cond THEN <<item>> ELSE <<>>

\* s.split(sep)
RECURSIVE Split(_, _)
Split(s, sep) ==
  IF \A i \in DOMAIN s : s[i] # sep THEN <<s>>
  ELSE LET p == Min({i \in DOMAIN s : s[i] = sep})
       IN  <<SubSeq(s, 1, p - 1)>> \o Split(SubSeq(s, p + 1, Len(s)), sep)

\* lines 140-141, without the empty entry at index 0
month_names ==
  <<"January", "February", "March", "April", "May", "June", "July", "August",
    "September", "October", "November", "December">>

-----------------------------------------------------------------------------
(* InsightGenerator._fallback_insights                                     *)

\* lines 121-134
SpillFindings(total, by_facility) ==
  When(total > 0,
       Text("Total of {total} incidents recorded in the analysis period", <<Num(total)>>))
    \o (IF by_facility = EmptyDict THEN <<>>
        ELSE LET top_count == Get(by_facility, "repeat_violator_count", 0)
                 top_violators == Get(by_facility, "top_violators", <<>>)
             IN  When(top_count > 0,
                      Text("{top_count} facilities have multiple incidents",
                           <<Num(top_count)>>))
                   \o (IF top_violators = <<>> THEN <<>>
                       ELSE <<Text("Highest: {top_name} with {top_incidents} incidents",
                                   <<Tok(top_violators[1][1]), Num(top_violators[1][2])>>)>>))

\* lines 137-149; an absent peak_month is None, 0 here, and is falsy as 0 is
SpillPatterns(temporal) ==
  IF temporal = EmptyDict THEN <<>>
  ELSE LET peak_month == Get(temporal, "peak_month", 0)
           trend == Get(temporal, "trend", "stable")
       IN  When(peak_month # 0,
                Text("Peak incidents occur in {month_names[peak_month]}",
                     <<Tok(month_names[peak_month])>>))
             \o When(trend = "increasing", Text("Incident rate is trending upward", <<>>))
             \o When(trend = "decreasing", Text("Incident rate is trending downward", <<>>))

\* lines 144-147
SpillConcerns(temporal) ==
  IF temporal = EmptyDict THEN <<>>
  ELSE When(Get(temporal, "trend", "stable") = "increasing",
            Text("Rising incident trend requires attention", <<>>))

_spill_insights(results, county, state) ==
  LET total == Get(results, "total_incidents", 0)
      temporal == Get(results, "temporal", EmptyDict)
      by_facility == Get(results, "by_facility", EmptyDict)
  IN  [summary |-> Text("Analysis found {total} environmental incidents in {county} County, {state}.",
                        <<Num(total), Tok(county), Tok(state)>>),
       key_findings |-> SpillFindings(total, by_facility),
       patterns |-> SpillPatterns(temporal),
       concerns |-> SpillConcerns(temporal),
       recommendations |->
         <<Text("Monitor facilities with multiple incidents more closely", <<>>),
           Text("Consider increased inspections during peak incident months", <<>>),
           Text("Review infrastructure maintenance schedules for problem areas", <<>>)>>,
       context |-> Text("These incidents can impact water quality and public health in {county} County.",
                        <<Tok(county)>>)]

_violator_insights(results, county, state) ==
  LET chronic == Get(results, "chronic_violators", 0)
      repeat == Get(results, "repeat_violators", 0)
      top_violators == Get(results, "top_violators", <<>>)
  IN  [summary |-> Text("Analysis identified {chronic} chronic and {repeat} repeat violators in {county} County.",
                        <<Num(chronic), Num(repeat), Tok(county)>>),
       key_findings |->
         When(chronic > 0,
              Text("{chronic} facilities with 10+ violations (chronic violators)",
                   <<Num(chronic)>>))
           \o When(repeat > 0,
                   Text("{repeat} facilities with 3-9 violations", <<Num(repeat)>>))
           \o (IF top_violators = <<>> THEN <<>>
               ELSE <<Text("Top violator: {facility_name} with {violation_count} violations",
                           <<Tok(Get(top_violators[1], "facility_name", "Unknown")),
                             Num(Get(top_violators[1], "violation_count", 0))>>)>>),
       patterns |-> <<>>,
       concerns |-> When(chronic > 0,
                         Text("Chronic violators need immediate intervention", <<>>)),
       recommendations |->
         <<Text("Prioritize infrastructure upgrades for chronic violators", <<>>),
           Text("Implement enhanced monitoring for repeat offenders", <<>>),
           Text("Consider enforcement actions for non-responsive facilities", <<>>),
           Text("Evaluate capacity issues at high-violation facilities", <<>>)>>,
       context |-> Text("Repeat violations often indicate systemic issues requiring infrastructure investment.",
                        <<>>)]

\* lines 211-224
CorrelationFindings(precip_corr) ==
  IF precip_corr = EmptyDict THEN <<>>
  ELSE LET coef == Get(precip_corr, "coefficient", 0)
           significant == Get(precip_corr, "significant", FALSE)
       IN  IF significant /\ coef > 200
           THEN <<Text("Significant correlation found (r={coef}) between rainfall and violations",
                       <<Num(coef)>>)>>
           ELSE IF significant /\ coef < -200
           THEN <<Text("Violations decrease during rainy periods", <<>>)>>
           ELSE <<Text("No strong correlation between rainfall and violations", <<>>)>>

\* lines 226-233: one pattern for each threshold with a relative risk above 1.5
RECURSIVE ThresholdPatterns(_)
ThresholdPatterns(threshold) ==
  IF threshold = <<>> THEN <<>>
  ELSE LET key == Head(threshold)[1]
           value == Head(threshold)[2]
       IN  When(Contains(key, <<"a", "b", "o", "v", "e">>)
                  /\ Get(value, "relative_risk", 100) > 150,
                Text("Violation risk is {risk}x higher when rainfall exceeds {inches} inches",
                     <<Num(value["relative_risk"]), Str(Split(key, "_")[2])>>))
             \o ThresholdPatterns(Tail(threshold))

_weather_insights(results, county, state) ==
  LET precip_corr == Get(results, "precipitation_correlation", EmptyDict)
      threshold == Get(results, "threshold_analysis", <<>>)
      strong == /\ precip_corr # EmptyDict
                /\ Get(precip_corr, "significant", FALSE)
                /\ Get(precip_corr, "coefficient", 0) > 200
  IN  [summary |-> Text("Analysis examined weather-related patterns in {county} County violations.",
                        <<Tok(county)>>),
       key_findings |-> CorrelationFindings(precip_corr),
       patterns |-> When(strong, Text("Violations increase with precipitation", <<>>))
                      \o ThresholdPatterns(threshold),
       concerns |-> When(strong,
                         Text("Infrastructure may be vulnerable to wet weather", <<>>)),
       recommendations |->
         <<Text("Increase monitoring during heavy rainfall events", <<>>),
           Text("Consider infrastructure upgrades for wet weather capacity", <<>>),
           Text("Develop rainfall-triggered inspection protocols", <<>>),
           Text("Invest in stormwater management improvements", <<>>)>>,
       context |-> Text("Weather events, especially heavy rainfall, can overwhelm aging infrastructure.",
                        <<>>)]

_general_insights(results, county, state) ==
  [summary |-> Text("Environmental overview for {county} County, {state}.",
                    <<Tok(county), Tok(state)>>),
   key_findings |->
     <<Text("Total incidents analyzed: {total_incidents}",
            <<IF "total_incidents" \in DOMAIN results
              THEN Num(results["total_incidents"]) ELSE Tok("N/A")>>)>>,
   patterns |-> <<Text("Analysis in progress", <<>>)>>,
   concerns |-> <<>>,
   recommendations |->
     <<Text("Review specific analysis types for detailed insights", <<>>),
       Text("Monitor facilities with compliance issues", <<>>)>>,
   context |-> Text("This overview provides a starting point for detailed environmental analysis.",
                    <<>>)]

\* lines 82-104
_fallback_insights(results, query_type, location) ==
  LET county == Get(location, "county", "the area")
      state == Get(location, "state", "")
  IN  CASE query_type = "spill_analysis" -> _spill_insights(results, county, state)
        [] query_type = "repeat_violators" -> _violator_insights(results, county, state)
        [] query_type = "weather_correlation" -> _weather_insights(results, county, state)
        [] OTHER -> _general_insights(results, county, state)

-----------------------------------------------------------------------------
(* Inputs of generate_insights.                                            *)

THRESHOLD_KEY_1 == <<"a", "b", "o", "v", "e", "_", "1", ".", "0", "_", "i", "n", "c", "h", "e", "s">>
THRESHOLD_KEY_2 == <<"a", "b", "o", "v", "e", "_", "2", ".", "0", "_", "i", "n", "c", "h", "e", "s">>

\* the AnalysisResults insights are asked for: none, the error facet, and
\* results of the three analyses
InsightResults ==
  {EmptyDict,
   [error |-> "No violation data available"],
   [total_incidents |-> 0],
   [total_incidents |-> 7,
    temporal |-> [peak_month |-> 3, trend |-> "increasing"],
    by_facility |-> [total_facilities |-> 2, repeat_violator_count |-> 1,
                     top_violators |-> << <<"Plant A", 5>>, <<"Plant B", 2>> >>]],
   [total_incidents |-> 4,
    temporal |-> [peak_month |-> 1, trend |-> "decreasing"]],
   [total_incidents |-> 2,
    temporal |-> [peak_month |-> 1, trend |-> "insufficient_data"],
    by_facility |-> [total_facilities |-> 2, repeat_violator_count |-> 0,
                     top_violators |-> << <<"Plant A", 1>>, <<"Plant B", 1>> >>]],
   [total_facilities |-> 2, chronic_violators |-> 1, repeat_violators |-> 1,
    occasional_violators |-> 0,
    top_violators |-> <<[facility_name |-> "Plant A", violation_count |-> 12],
                        [facility_name |-> "Plant B", violation_count |-> 3]>>],
   [total_facilities |-> 1, chronic_violators |-> 0, repeat_violators |-> 0,
    occasional_violators |-> 1,
    top_violators |-> <<[facility_name |-> "Plant B", violation_count |-> 1]>>],
   [data_points |-> 12,
    precipitation_correlation |-> [coefficient |-> 612, significant |-> TRUE],
    threshold_analysis |->
      << <<THRESHOLD_KEY_1, [days |-> 4, avg_violations |-> 50, relative_risk |-> 400]>>,
         <<THRESHOLD_KEY_2, [days |-> 1, avg_violations |-> 0, relative_risk |-> 0]>> >>],
   [data_points |-> 12,
    precipitation_correlation |-> [coefficient |-> -350, significant |-> TRUE],
    threshold_analysis |-> <<>>],
   [data_points |-> 5, threshold_analysis |-> <<>>]}

InsightQueryTypes == QueryTypes \cup {"pollution_report"}

InsightLocations ==
  {[state |-> "AL", county |-> "Baldwin"], [state |-> "OH"], EmptyDict}

\* the arguments of one call
InsightArgs ==
  {[results |-> r, query_type |-> q, location |-> l] :
     r \in InsightResults, q \in InsightQueryTypes, l \in InsightLocations}

NoArgs == [results |-> EmptyDict, query_type |-> "none", location |-> EmptyDict]

\* what the model may answer with: an object with the six fields, an object
\* without them, a JSON value that is no object
InsightObjects ==
  {[summary |-> Text("Seven incidents, rising.", <<>>),
    key_findings |-> <<Text("Plant A leads", <<>>)>>,
    patterns |-> <<>>,
    concerns |-> <<>>,
    recommendations |-> <<Text("Inspect Plant A", <<>>)>>,
    context |-> Text("Water quality", <<>>)],
   [summary |-> Text("Seven incidents, rising.", <<>>)],
   EmptyDict}

\* what the create call produces: an exception, content that is no JSON, or
\* content that is
InsightReplies ==
  {[kind |-> "raise"], [kind |-> "text"], [kind |-> "json", v |-> Scalar]}
    \cup {[kind |-> "json", v |-> o] : o \in InsightObjects}

-----------------------------------------------------------------------------
(* InsightGenerator.generate_insights                                      *)

\* lines 58-69: the create call and json.loads of its content
ParseInsightReply(r) ==
  IF r.kind = "raise" THEN Raise("APIError")
  ELSE IF r.kind = "text" THEN Raise("JSONDecodeError")
  ELSE Ok(r.v)

\* the try block with one more attempt after a failure
RespondInsights_retry(r, a, c) ==
  LET attempt == ParseInsightReply(r)
  IN  IF attempt.kind = "raise" /\ c < 2
      THEN [pc |-> "calling", calls |-> c + 1, result |-> NoResult]
      ELSE IF attempt.kind = "raise"
      THEN [pc |-> "returned", calls |-> c,
            result |-> Ok(_fallback_insights(a.results, a.query_type, a.location))]
      ELSE [pc |-> "returned", calls |-> c, result |-> attempt]

\* lines 57-73: the try block around the single create call; c is the number
\* of create calls made so far
RespondInsights(r, a, c) ==
  LET attempt == ParseInsightReply(r)
  IN  IF attempt.kind = "raise"
      THEN [pc |-> "returned", calls |-> c,
            result |-> Ok(_fallback_insights(a.results, a.query_type, a.location))]
      ELSE [pc |-> "returned", calls |-> c, result |-> attempt]

\* lines 25-26: no client, the fallback rules answer
GenerateInsightsNoClient ==
  /\ ipc = "idle"
  /\ ~igClient
  /\ \E a \in InsightArgs :
       /\ iargs' = a
       /\ insights' = Ok(_fallback_insights(a.results, a.query_type, a.location))
  /\ ipc' = "returned"
  /\ UNCHANGED <<igClient, icalls, ireply>>
  /\ UNCHANGED qpVars
  /\ UNCHANGED aeVars
  /\ UNCHANGED <<ccVars, appVars>>

\* lines 28-66: the prompts are built and the create call is made
GenerateInsightsCreate ==
  /\ ipc = "idle"
  /\ igClient
  /\ \E a \in InsightArgs : iargs' = a
  /\ icalls' = icalls + 1
  /\ ipc' = "calling"
  /\ UNCHANGED <<igClient, ireply, insights>>
  /\ UNCHANGED qpVars
  /\ UNCHANGED aeVars
  /\ UNCHANGED <<ccVars, appVars>>

\* lines 68-73: the call returned or raised
GenerateInsightsReply ==
  /\ ipc = "calling"
  /\ \E r \in InsightReplies :
       LET next == RespondInsights(r, iargs, icalls)
       IN  /\ ipc' = next.pc
           /\ icalls' = next.calls
           /\ insights' = next.result
           /\ ireply' = r
  /\ UNCHANGED <<igClient, iargs>>
  /\ UNCHANGED qpVars
  /\ UNCHANGED aeVars
  /\ UNCHANGED <<ccVars, appVars>>

\* the caller takes the insights and may ask again
GenerateInsightsDone ==
  /\ ipc = "returned"
  /\ ipc' = "idle"
  /\ iargs' = NoArgs
  /\ icalls' = 0
  /\ ireply' = NoReply
  /\ insights' = NoResult
  /\ UNCHANGED igClient
  /\ UNCHANGED qpVars
  /\ UNCHANGED aeVars
  /\ UNCHANGED <<ccVars, appVars>>

-----------------------------------------------------------------------------
(* Two callers of the one AnalysisEngine (get_components caches a single   *)
(* instance for every session).  The engine has no attributes; what two    *)
(* calls can share is a DataFrame passed to both.  A call is a sequence of *)
(* steps, each a read or a write of the DataFrame, and the steps of two    *)
(* calls interleave.                                                       *)

Threads == {1, 2}

\* the DataFrames the callers hold
Objects == {1, 2}

\* the violations tables the callers prepare
SharedTables == PairedViolations \cup {Table({}, <<>>)}

AnalysisNames ==
  {"analyze_spill_patterns", "analyze_repeat_violators", "analyze_weather_correlation"}

\* a caller that is in no call
IdleThread ==
  [pc |-> "idle", call |-> "none", obj |-> 0, w |-> Table({}, <<>>),
   local |-> NoResult, result |-> NoResult, foreign |-> FALSE]

\* the call run from its first line to its last on tables v and w
RunAlone(name, v, w) ==
  CASE name = "analyze_spill_patterns" -> analyze_spill_patterns(v, w).out
    [] name = "analyze_repeat_violators" -> analyze_repeat_violators(v, w).out
    [] OTHER -> analyze_weather_correlation(v, w).out

\* thread t reads DataFrame o: it sees what the other thread wrote to it
SeesForeign(t, o) == writer[o] \notin {0, t}

\* the callers build their tables; no call is running
Prepare ==
  /\ \A t \in Threads : threads[t].pc = "idle"
  /\ \E h \in [Objects -> SharedTables] :
       /\ heap' = h
       /\ prepared' = h
  /\ writer' = [o \in Objects |-> 0]
  /\ UNCHANGED threads
  /\ UNCHANGED <<qpVars, aeVars, igVars, appVars>>

\* a caller calls an analysis with one of the DataFrames
CallBegins(t) ==
  /\ threads[t].pc = "idle"
  /\ \E name \in AnalysisNames, o \in Objects :
       threads' = [threads EXCEPT ![t] =
                     [IdleThread EXCEPT !.pc = "entered", !.call = name, !.obj = o,
                                        !.w = PairedWeather]]
  /\ UNCHANGED <<heap, prepared, writer>>
  /\ UNCHANGED <<qpVars, aeVars, igVars, appVars>>

\* analyze_spill_patterns, lines 19-26: the table is read for the empty
\* test, the row count and the date range
SpillReads(t) ==
  LET me == threads[t]
      v == heap[me.obj]
      date_range == _get_date_range(v)
  IN  /\ me.pc = "entered"
      /\ me.call = "analyze_spill_patterns"
      /\ threads' = [threads EXCEPT ![t] =
           IF IsEmpty(v)
           THEN [me EXCEPT !.pc = "returned",
                           !.result = Ok(ErrorResult("No violation data available")),
                           !.foreign = me.foreign \/ SeesForeign(t, me.obj)]
           ELSE IF date_range.kind = "raise"
           THEN [me EXCEPT !.pc = "returned", !.result = date_range,
                           !.foreign = me.foreign \/ SeesForeign(t, me.obj)]
           ELSE [me EXCEPT !.pc = "assigning",
                           !.local = [total_incidents |-> Len(v.rows),
                                      date_range |-> date_range.v],
                           !.foreign = me.foreign \/ SeesForeign(t, me.obj)]]
      /\ UNCHANGED <<heap, prepared, writer>>
      /\ UNCHANGED <<qpVars, aeVars, igVars, appVars>>

\* line 29: the "date" column is written to the DataFrame that was passed in
SpillAssigns(t) ==
  LET me == threads[t]
  IN  /\ me.pc = "assigning"
      /\ heap' = [heap EXCEPT ![me.obj] = AssignDateColumn(heap[me.obj])]
      /\ writer' = [writer EXCEPT ![me.obj] =
                      IF "violation_date" \in heap[me.obj].columns THEN t ELSE @]
      /\ threads' = [threads EXCEPT ![t] = [me EXCEPT !.pc = "analyzing"]]
      /\ UNCHANGED prepared
      /\ UNCHANGED <<qpVars, aeVars, igVars, appVars>>

\* lines 30-48: the DataFrame is read again (violations.copy() and the
\* column tests) and the facets are computed from what it now holds
SpillAnalyzes(t) ==
  LET me == threads[t]
      rest == analyze_spill_patterns(heap[me.obj], me.w).out
  IN  /\ me.pc = "analyzing"
      /\ threads' = [threads EXCEPT ![t] =
           [me EXCEPT !.pc = "returned",
                      !.result =
                        IF rest.kind = "raise" THEN rest
                        ELSE Ok([rest.v EXCEPT
                                   !["total_incidents"] = me.local.total_incidents,
                                   !["date_range"] = me.local.date_range]),
                      !.foreign = me.foreign \/ SeesForeign(t, me.obj)]]
      /\ UNCHANGED <<heap, prepared, writer>>
      /\ UNCHANGED <<qpVars, aeVars, igVars, appVars>>

\* analyze_repeat_violators (lines 260-302) and analyze_weather_correlation
\* (lines 167-232): the DataFrame is read once, by violations.copy(), and
\* the rest of the call works on the copy
CopyingCallRuns(t) ==
  LET me == threads[t]
  IN  /\ me.pc = "entered"
      /\ me.call \in {"analyze_repeat_violators", "analyze_weather_correlation"}
      /\ threads' = [threads EXCEPT ![t] =
           [me EXCEPT !.pc = "returned",
                      !.result = RunAlone(me.call, heap[me.obj], me.w),
                      !.foreign = me.foreign \/ SeesForeign(t, me.obj)]]
      /\ UNCHANGED <<heap, prepared, writer>>
      /\ UNCHANGED <<qpVars, aeVars, igVars, appVars>>

\* the caller takes the result
CallReturns(t) ==
  /\ threads[t].pc = "returned"
  /\ threads' = [threads EXCEPT ![t] = IdleThread]
  /\ UNCHANGED <<heap, prepared, writer>>
  /\ UNCHANGED <<qpVars, aeVars, igVars, appVars>>

-----------------------------------------------------------------------------
(* app.process_query: the requests of one Streamlit session.               *)
(*                                                                         *)
(* session is st.session_state and frame the locals of the process_query   *)
(* that is running.  origin and ran are history variables: the request     *)
(* that wrote each session value (0: none), the queries whose request ran  *)
(* to its last line, and the stages the running request went through.      *)
(* The locals end with the request.                                        *)
(* The insight is kept by its kind (from the fallback rules, or the JSON   *)
(* value of the model's answer); its content is the subject of the insight *)
(* generator's own specification.                                          *)

\* the texts asked: one of each of four query types, and one whose time
\* phrase the fallback parser cannot turn into a date
AppQueries == {Fragments[1], Fragments[2], Fragments[3], Fragments[4], Fragments[13]}

\* what the query processor's model call may produce
AppReplies ==
  {[kind |-> "raise"],
   [kind |-> "json", v |-> BaseReply],
   [kind |-> "json", v |-> [BaseReply EXCEPT !.query_type = Missing]],
   [kind |-> "json",
    v |-> [BaseReply EXCEPT !.time_range =
             [t |-> "dict", start_date |-> Date(2024, 1, 1), end_date |-> Null,
              relative |-> Null]]]}

\* render_sidebar, lines 116-127: the defaults of the two inputs
settings == [state |-> Str(DEFAULT_STATE), county |-> Str(DEFAULT_COUNTY)]

\* the tables EPAClient.get_violations returns: _parse_violations gives no
\* columns without records, and a record whose ViolationDate is absent has
\* a null violation_date
AppColumns == ViolationColumns \ {"severity"}

AppViolations ==
  {Table({}, <<>>),
   Table(AppColumns,
         <<[c \in AppColumns |->
              [violation_date |-> Date(2024, 1, 15), facility_name |-> Tok("Plant A"),
               latitude |-> Num(3050), longitude |-> Num(-8774),
               violation_type |-> Tok("SSO")][c]]>>),
   Table(AppColumns,
         <<[c \in AppColumns |->
              [violation_date |-> Null, facility_name |-> Tok("Plant A"),
               latitude |-> Num(3051), longitude |-> Num(-8774),
               violation_type |-> Tok("SSO")][c]]>>)}

\* the locals of process_query before its first line
NoFrame ==
  [query |-> <<>>, parsed |-> NoResult, data |-> NoResult, results |-> NoResult,
   insights |-> NoResult, e |-> NoResult]

\* init_session_state, lines 84-93
NewSession ==
  [query_history |-> <<>>, current_results |-> Null, current_insights |-> Null,
   current_data |-> EmptyDict]

NoOrigin ==
  [current_data |-> 0, current_results |-> 0, current_insights |-> 0, completed |-> {}]

\* the stages of lines 206-245, in the order of the code
StageOrder == <<"interpret", "fetch", "analyze", "insight", "display", "record">>

\* a stage that went on whatever the stage before it did
After_continue(stage, out) ==
  LET i == CHOOSE j \in DOMAIN StageOrder : StageOrder[j] = stage
  IN  IF i = Len(StageOrder) THEN "idle" ELSE StageOrder[i + 1]

\* lines 203-252: the statements are in one try block, so a stage that
\* returns is followed by the next one and a stage that raises by the
\* except clause
After(stage, out) ==
  LET i == CHOOSE j \in DOMAIN StageOrder : StageOrder[j] = stage
  IN  IF out.kind = "raise" THEN "handler"
      ELSE IF i = Len(StageOrder) THEN "idle" ELSE StageOrder[i + 1]

\* the entry of ran for a stage that ended with out
Ran(stage, out) ==
  [stage |-> stage, outcome |-> IF out.kind = "raise" THEN "raised" ELSE "returned"]

\* lines 209-212: the sidebar's state and county where the query gave none
WithSettings(parsed) ==
  [parsed EXCEPT !.location =
     [@ EXCEPT !.state = IF Truthy(@) THEN @ ELSE settings.state,
               !.county = IF Truthy(@) THEN @ ELSE settings.county]]

\* lines 209-221: the defaults, and st.json of four keys of the ParsedQuery;
\* parsed is what QueryProcessor.process_query returned or raised
ShowParsed(parsed) ==
  IF parsed.kind = "raise" THEN parsed
  ELSE IF parsed.v.query_type.t = "missing" THEN Raise("KeyError")
  ELSE Ok(WithSettings(parsed.v))

\* datetime.now() of the request
AppNow == CHOOSE n \in NowChoices : TRUE

\* lines 206-221; r is what the model call produced
Interpret(q, r) ==
  ShowParsed(IF client THEN Respond(r, q, AppNow, 1).result
             ELSE _fallback_parse(q, AppNow))

\* datetime.strptime(cell, "%Y-%m-%d")
strptime(cell) ==
  IF cell.t = "date" THEN Ok(Ts(ToOrdinal(cell.y, cell.m, cell.d))) ELSE Raise("TypeError")

\* lines 255-307, with v and p the tables the EPA and NOAA clients return;
\* the facilities table, which no later stage modelled here reads, is left out
fetch_data_for_query(parsed, v, p) ==
  IF strptime(parsed.time_range.start_date).kind = "raise"
  THEN strptime(parsed.time_range.start_date)
  ELSE IF strptime(parsed.time_range.end_date).kind = "raise"
  THEN strptime(parsed.time_range.end_date)
  ELSE IF parsed.query_type = Tok("weather_correlation")
  THEN Ok([violations |-> v, precipitation |-> p])
  ELSE Ok([violations |-> v])

\* lines 310-340: the analysis of the query type; the tables as the call
\* leaves them, and what it returns
analyze_data(parsed, data) ==
  LET none == Table({}, <<>>)
      precipitation == IF "precipitation" \in DOMAIN data THEN data.precipitation ELSE none
  IN  CASE parsed.query_type = Tok("spill_analysis") ->
             analyze_spill_patterns(data.violations, precipitation)
        [] parsed.query_type = Tok("repeat_violators") ->
             analyze_repeat_violators(data.violations, none)
        [] parsed.query_type = Tok("weather_correlation") ->
             analyze_weather_correlation(data.violations, precipitation)
        [] OTHER -> analyze_spill_patterns(data.violations, none)

\* what the insight generator's model call may produce: an exception, a
\* JSON value that is no object, a JSON object
AppInsightReplies ==
  {[kind |-> "raise"], [kind |-> "json", v |-> Scalar], [kind |-> "json", v |-> EmptyDict]}

\* what the fallback rules return, a dict
FallbackInsight == [source |-> "fallback"]

\* generate_insights, lines 25-26 and 57-73; r is what the model call produced
generate_insights(r) ==
  IF ~igClient THEN FallbackInsight
  ELSE IF ParseInsightReply(r).kind = "raise" THEN FallbackInsight
  ELSE r.v

\* display_results, lines 343-385: insights.get needs a dict
display_results(value) ==
  IF "t" \in DOMAIN value /\ value.t = "scalar" THEN Raise("AttributeError")
  ELSE Ok(value)

\* main, lines 599-602: a query is submitted
AppRequest ==
  /\ apppc = "idle"
  /\ served < MaxRequests
  /\ \E q \in AppQueries : frame' = [NoFrame EXCEPT !.query = q]
  /\ served' = served + 1
  /\ ran' = <<>>
  /\ apppc' = "interpret"
  /\ UNCHANGED <<session, origin>>
  /\ UNCHANGED <<qpVars, aeVars, igVars, ccVars>>

\* lines 206-221
AppInterpret ==
  /\ apppc = "interpret"
  /\ \E r \in (IF client THEN AppReplies ELSE {NoReply}) :
       \E out \in {Interpret(frame.query, r)} :
           /\ frame' = IF out.kind = "raise" THEN [frame EXCEPT !.e = out]
                       ELSE [frame EXCEPT !.parsed = out.v]
           /\ ran' = Append(ran, Ran("interpret", out))
           /\ apppc' = After("interpret", out)
  /\ UNCHANGED <<session, origin, served>>
  /\ UNCHANGED <<qpVars, aeVars, igVars, ccVars>>

\* lines 225-226
AppFetch ==
  /\ apppc = "fetch"
  /\ \E v \in AppViolations :
       \E out \in {fetch_data_for_query(frame.parsed, v, PairedWeather)} :
           /\ frame' = IF out.kind = "raise" THEN [frame EXCEPT !.e = out]
                       ELSE [frame EXCEPT !.data = out.v]
           /\ session' = IF out.kind = "raise" THEN session
                         ELSE [session EXCEPT !.current_data = out.v]
           /\ origin' = IF out.kind = "raise" THEN origin
                        ELSE [origin EXCEPT !.current_data = served]
           /\ ran' = Append(ran, Ran("fetch", out))
           /\ apppc' = After("fetch", out)
  /\ UNCHANGED served
  /\ UNCHANGED <<qpVars, aeVars, igVars, ccVars>>

\* lines 229-230; the DataFrame analyze_spill_patterns writes to is the one
\* data and st.session_state.current_data hold
AppAnalyze ==
  /\ apppc = "analyze"
  /\ \E after \in {analyze_data(frame.parsed, frame.data)} :
     LET out == after.out
         data == [frame.data EXCEPT !.violations = after.violations]
     IN  /\ frame' = IF out.kind = "raise" THEN [frame EXCEPT !.data = data, !.e = out]
                     ELSE [frame EXCEPT !.data = data, !.results = out.v]
         /\ session' = IF out.kind = "raise" THEN [session EXCEPT !.current_data = data]
                       ELSE [session EXCEPT !.current_data = data,
                                            !.current_results = out.v]
         /\ origin' = IF out.kind = "raise" THEN origin
                      ELSE [origin EXCEPT !.current_results = served]
         /\ ran' = Append(ran, Ran("analyze", out))
         /\ apppc' = After("analyze", out)
  /\ UNCHANGED served
  /\ UNCHANGED <<qpVars, aeVars, igVars, ccVars>>

\* lines 233-238
AppInsights ==
  /\ apppc = "insight"
  /\ \E r \in (IF igClient THEN AppInsightReplies ELSE {NoReply}) :
       \E out \in {Ok(generate_insights(r))} :
           /\ frame' = [frame EXCEPT !.insights = out.v]
           /\ session' = [session EXCEPT !.current_insights = out.v]
           /\ origin' = [origin EXCEPT !.current_insights = served]
           /\ ran' = Append(ran, Ran("insight", out))
           /\ apppc' = After("insight", out)
  /\ UNCHANGED served
  /\ UNCHANGED <<qpVars, aeVars, igVars, ccVars>>

\* line 241
AppDisplay ==
  /\ apppc = "display"
  /\ \E out \in {display_results(frame.insights)} :
         /\ frame' = IF out.kind = "raise" THEN [frame EXCEPT !.e = out] ELSE frame
         /\ ran' = Append(ran, Ran("display", out))
         /\ apppc' = After("display", out)
  /\ UNCHANGED <<session, origin, served>>
  /\ UNCHANGED <<qpVars, aeVars, igVars, ccVars>>

\* lines 244-245
AppRecord ==
  /\ apppc = "record"
  /\ session' = IF \E i \in DOMAIN session.query_history :
                     session.query_history[i] = frame.query
                THEN session
                ELSE [session EXCEPT !.query_history = Append(@, frame.query)]
  /\ origin' = [origin EXCEPT !.completed = @ \cup {frame.query}]
  /\ frame' = NoFrame
  /\ ran' = <<>>
  /\ apppc' = After("record", Ok(frame.query))
  /\ UNCHANGED served
  /\ UNCHANGED <<qpVars, aeVars, igVars, ccVars>>

\* lines 247-252: the except clause shows the error; the session is left
\* as it is
AppHandle ==
  /\ apppc = "handler"
  /\ apppc' = "idle"
  /\ frame' = NoFrame
  /\ ran' = <<>>
  /\ UNCHANGED <<session, origin, served>>
  /\ UNCHANGED <<qpVars, aeVars, igVars, ccVars>>

-----------------------------------------------------------------------------
(* Specifications.                                                         *)

Init ==
  /\ client \in BOOLEAN
  /\ pc = "idle"
  /\ query = <<>>
  /\ now = 0
  /\ calls = 0
  /\ reply = NoReply
  /\ result = NoResult
  /\ violations = Table({}, <<>>)
  /\ weather = Table({}, <<>>)
  /\ apc = "idle"
  /\ called = "none"
  /\ snapshot = <<Table({}, <<>>), Table({}, <<>>)>>
  /\ analysis = NoResult
  /\ igClient = client   \* both take config.OPENAI_API_KEY (app.py, lines 100-102)
  /\ ipc = "idle"
  /\ iargs = NoArgs
  /\ icalls = 0
  /\ ireply = NoReply
  /\ insights = NoResult
  /\ heap = [o \in Objects |-> Table({}, <<>>)]
  /\ prepared = [o \in Objects |-> Table({}, <<>>)]
  /\ writer = [o \in Objects |-> 0]
  /\ threads = [t \in Threads |-> IdleThread]
  /\ apppc = "idle"
  /\ frame = NoFrame
  /\ session = NewSession
  /\ origin = NoOrigin
  /\ ran = <<>>
  /\ served = 0

\* the query processor
Next ==
  \/ ProcessQueryNoClient
  \/ ProcessQueryCreate
  \/ ProcessQueryReply
  \/ ProcessQueryDone

Spec == Init /\ [][Next]_vars

\* the analysis engine
NextAnalysis ==
  \/ AnalyzeSpillPatterns
  \/ AnalyzeRepeatViolators
  \/ AnalyzeWeatherCorrelation
  \/ AnalysisDone

SpecAnalysis == Init /\ [][NextAnalysis]_vars

\* the insight generator
NextInsight ==
  \/ GenerateInsightsNoClient
  \/ GenerateInsightsCreate
  \/ GenerateInsightsReply
  \/ GenerateInsightsDone

SpecInsight == Init /\ [][NextInsight]_vars

\* two callers of the analysis engine
NextConcurrent ==
  \/ Prepare
  \/ \E t \in Threads : CallBegins(t)
  \/ \E t \in Threads : SpillReads(t)
  \/ \E t \in Threads : SpillAssigns(t)
  \/ \E t \in Threads : SpillAnalyzes(t)
  \/ \E t \in Threads : CopyingCallRuns(t)
  \/ \E t \in Threads : CallReturns(t)

SpecConcurrent == Init /\ [][NextConcurrent]_vars

\* the requests of one session of the app
NextApp ==
  \/ AppRequest
  \/ AppInterpret
  \/ AppFetch
  \/ AppAnalyze
  \/ AppInsights
  \/ AppDisplay
  \/ AppRecord
  \/ AppHandle

SpecApp == Init /\ [][NextApp]_vars

-----------------------------------------------------------------------------
(* Properties of process_query.                                            *)

\* process_query has returned a value
Returned == pc = "returned" /\ result.kind = "ok"

\* the value came from the model's answer
OnModelPath == pc = "returned" /\ client /\ ParseReply(reply, query, now).kind = "ok"

\* the model was not asked, or its answer was not usable
OnFallbackPath == pc = "returned" /\ (~client \/ ParseReply(reply, query, now).kind = "raise")

\* C1: process_query never raises: every invocation ends with a ParsedQuery
\* value, whatever the text and whatever the model does.
C1_NeverRaises == pc = "returned" => result.kind = "ok"

\* C2: every ParsedQuery returned has both dates of its time range present
\* and start_date <= end_date.
C2_StartNotAfterEnd ==
  Returned =>
    /\ result.v.time_range.t = "dict"
    /\ result.v.time_range.start_date.t = "date"
    /\ result.v.time_range.end_date.t = "date"
    /\ DateLeq(result.v.time_range.start_date, result.v.time_range.end_date)

\* C3: every ParsedQuery returned has a query_type among the six query types.
C3_QueryTypeIsOneOfSix ==
  Returned => (result.v.query_type.t = "tok" /\ result.v.query_type.v \in QueryTypes)

KeywordGroups == <<SpillWords, RepeatWords, WeatherWords, TrendWords, SearchWords>>
GroupQueryType ==
  <<"spill_analysis", "repeat_violators", "weather_correlation", "violation_trends",
    "facility_search">>
MatchingGroups(query_lower) ==
  {g \in DOMAIN KeywordGroups : AnyWordIn(query_lower, KeywordGroups[g])}

SourcesNotSupplied == OnFallbackPath \/ (OnModelPath /\ reply.v.data_sources.t = "missing")
VisualizationNotSupplied ==
  OnFallbackPath \/ (OnModelPath /\ reply.v.visualization_type.t = "missing")

\* C7: when data_sources or visualization_type is not supplied explicitly, the
\* value returned is the lookup-table entry of the query_type returned.
C7_LookupTableEntries ==
  Returned =>
    /\ SourcesNotSupplied =>
         /\ result.v.query_type.t = "tok" /\ result.v.query_type.v \in QueryTypes
         /\ result.v.data_sources = List(source_map[result.v.query_type.v])
    /\ VisualizationNotSupplied =>
         /\ result.v.query_type.t = "tok" /\ result.v.query_type.v \in QueryTypes
         /\ result.v.visualization_type = Tok(viz_map[result.v.query_type.v])

\* C8: when the text contains a full state name, the state resolved is that
\* name's abbreviation; a two-letter token counts only without a full name.
C8_FullNameFirst ==
  (Returned /\ OnFallbackPath /\ StateByName(Lower(query)) # Null)
    => result.v.location.state = StateByName(Lower(query))

\* the number N of the phrase "last N <unit>s" in the text, -1 without one
PhraseNumber(s, unit) ==
  LET m == PhraseMatch(s, unit)
  IN  IF m[1] = 0 THEN -1 ELSE ToInt(SubSeq(s, m[1], m[2]))

\* C9: on the fallback path a text with "last N months" (or "last N weeks") and
\* no "N years" phrase gets the time range [now - N months, now] (or
\* [now - N weeks, now]), a month being 30 days as in _parse_relative_time.
C9_MonthsAndWeeks ==
  (Returned /\ OnFallbackPath /\ PhraseNumber(Lower(query), <<"y", "e", "a", "r">>) = -1)
    => LET months == PhraseNumber(Lower(query), <<"m", "o", "n", "t", "h">>)
           weeks  == PhraseNumber(Lower(query), <<"w", "e", "e", "k">>)
       IN  /\ months >= 0 =>
                result.v.time_range = TimeRange(FromOrdinal(now - 30 * months), FromOrdinal(now))
           /\ (months < 0 /\ weeks >= 0) =>
                result.v.time_range = TimeRange(FromOrdinal(now - 7 * weeks), FromOrdinal(now))

-----------------------------------------------------------------------------
(* Properties of the analysis calls.                                       *)

\* C10: no analysis call mutates its inputs: when the call is over, the
\* violations table and the weather table have the columns and rows they had
\* when it was made.
C10_InputsUnchanged ==
  apc = "returned" => (violations = snapshot[1] /\ weather = snapshot[2])

\* the analysis `name` has run to its end
AnalysisReturned(name) == apc = "returned" /\ called = name

\* the call returned a result (it did not raise), with these facets
ResultFacets == IF analysis.kind = "ok" THEN DOMAIN analysis.v ELSE {}

\* a column the called analysis reads is absent from a non-empty table
RequiredColumnMissing ==
  \/ /\ AnalysisReturned("analyze_repeat_violators")
     /\ ~IsEmpty(snapshot[1])
     /\ ~(({"facility_name"} \cup RepeatColumns) \subseteq snapshot[1].columns)
  \/ /\ AnalysisReturned("analyze_weather_correlation")
     /\ ~IsEmpty(snapshot[1])
     /\ ~IsEmpty(snapshot[2])
     /\ ("violation_date" \notin snapshot[1].columns \/ "date" \notin snapshot[2].columns)

\* C11: an analysis given a non-empty table that lacks a column it requires
\* returns a result with the error facet; it does not raise.
C11_MissingColumnGivesError ==
  RequiredColumnMissing => (analysis.kind = "ok" /\ "error" \in ResultFacets)

\* the optional facets of analyze_spill_patterns the columns call for
ExpectedOptionalFacets(columns) ==
  (IF "violation_date" \in columns THEN {"temporal"} ELSE {})
    \cup (IF {"latitude", "longitude"} \subseteq columns THEN {"spatial"} ELSE {})
    \cup (IF "severity" \in columns THEN {"severity"} ELSE {})
    \cup (IF "violation_type" \in columns THEN {"types"} ELSE {})
    \cup (IF "facility_name" \in columns THEN {"by_facility"} ELSE {})

\* the violations table has no date column, or a row of it has a date
DatesUsable ==
  \/ "violation_date" \notin snapshot[1].columns
  \/ \E i \in DOMAIN snapshot[1].rows :
       to_datetime(snapshot[1].rows[i]["violation_date"]).t = "ts"

\* C12: analyze_spill_patterns on a non-empty table never raises, whichever
\* optional columns are absent, and each optional facet is in the result
\* exactly when its columns are in the table.
C12_OptionalFacets ==
  (AnalysisReturned("analyze_spill_patterns") /\ ~IsEmpty(snapshot[1]) /\ DatesUsable)
    => /\ analysis.kind = "ok"
       /\ ResultFacets \cap {"temporal", "spatial", "severity", "types", "by_facility"}
            = ExpectedOptionalFacets(snapshot[1].columns)

\* the call was given an empty table where it requires rows
EmptyInput ==
  /\ apc = "returned"
  /\ \/ IsEmpty(snapshot[1])
     \/ called = "analyze_weather_correlation" /\ IsEmpty(snapshot[2])

\* C13: with an empty violations table each analysis returns a result whose
\* only key is error, and so does analyze_weather_correlation with an empty
\* weather table.
C13_EmptyInputGivesErrorOnly ==
  EmptyInput => (analysis.kind = "ok" /\ ResultFacets = {"error"})

C13_Witness ==
  /\ AnalysisReturned("analyze_weather_correlation")
  /\ ~IsEmpty(snapshot[1])
  /\ IsEmpty(snapshot[2])
  /\ ResultFacets = {"error"}

\* analyze_repeat_violators returned its counts
RepeatResult ==
  /\ AnalysisReturned("analyze_repeat_violators")
  /\ analysis.kind = "ok"
  /\ "error" \notin ResultFacets

\* the facilities with 12 rows in the table given, each dated, one a month
MonthlyForAYear ==
  LET rows == snapshot[1].rows
      of(f) == {i \in DOMAIN rows : rows[i]["facility_name"] = f}
      month(i) == LET d == FromOrdinal(to_datetime(rows[i]["violation_date"]).ord)
                  IN  <<d.y, d.m>>
  IN  {f \in {rows[i]["facility_name"] : i \in DOMAIN rows} :
         /\ Cardinality(of(f)) = 12
         /\ \A i \in of(f) : to_datetime(rows[i]["violation_date"]).t = "ts"
         /\ Cardinality({month(i) : i \in of(f)}) = 12}

\* C14: every facility is in the one category its violation count calls for
\* (chronic from 10, repeat from 3 to 9, occasional below 3), the three
\* reported numbers count the facilities of each range and add up to
\* total_facilities, and a facility with 12 rows, one a month, is chronic.
C14_CategoriesPartition ==
  RepeatResult =>
    LET r == analysis.v
        InRange(lo, hi) ==
          Cardinality({f \in r.top_violators :
                         f.violation_count >= lo /\ f.violation_count <= hi})
    IN  /\ \A f \in r.top_violators :
             /\ f.category = "chronic" <=> f.violation_count >= 10
             /\ f.category = "repeat" <=> (f.violation_count >= 3 /\ f.violation_count < 10)
             /\ f.category = "occasional" <=> f.violation_count < 3
        /\ Cardinality(r.top_violators) = r.total_facilities
        /\ r.chronic_violators = Cardinality({f \in r.top_violators : f.violation_count >= 10})
        /\ r.repeat_violators = InRange(3, 9)
        /\ r.occasional_violators = Cardinality({f \in r.top_violators : f.violation_count < 3})
        /\ r.chronic_violators + r.repeat_violators + r.occasional_violators
             = r.total_facilities
        /\ \A f \in r.top_violators :
             Tok(f.facility_name) \in MonthlyForAYear => f.category = "chronic"

C14_Witness ==
  /\ RepeatResult
  /\ MonthlyForAYear # {}
  /\ analysis.v.chronic_violators = 1
  /\ analysis.v.repeat_violators = 1

\* analyze_spill_patterns returned a result with the temporal facet
TemporalResult ==
  /\ AnalysisReturned("analyze_spill_patterns")
  /\ analysis.kind = "ok"
  /\ "temporal" \in ResultFacets

\* the calendar months (year, month) the violations given fall into
MonthBuckets ==
  LET rows == snapshot[1].rows
  IN  {LET d == FromOrdinal(to_datetime(rows[i]["violation_date"]).ord) IN <<d.y, d.m>> :
         i \in {j \in DOMAIN rows : to_datetime(rows[j]["violation_date"]).t = "ts"}}

\* C15: the trend is insufficient_data exactly when the violations fall into
\* fewer than 3 calendar months; from 3 months on it is stable, increasing
\* or decreasing.
C15_TrendNeedsThreeMonths ==
  TemporalResult =>
    LET trend == analysis.v["temporal"].trend
    IN  /\ trend = "insufficient_data" <=> Cardinality(MonthBuckets) < 3
        /\ Cardinality(MonthBuckets) >= 3 => trend \in {"stable", "increasing", "decreasing"}

C15_Witness ==
  /\ TemporalResult
  /\ Cardinality(MonthBuckets) = 3
  /\ analysis.v["temporal"].trend = "decreasing"

\* the monthly counts of the violations given, month after month
MonthlyCounts == MonthlySizes(AssignDateColumn(snapshot[1]))

\* C16: monthly counts over 3 or more months that increase from each month
\* to the next give the trend increasing, and equal monthly counts give
\* the trend stable.
C16_MonotoneIsIncreasing ==
  (TemporalResult /\ Len(MonthlyCounts) >= 3) =>
    /\ (\A j \in 1..(Len(MonthlyCounts) - 1) : MonthlyCounts[j] < MonthlyCounts[j + 1])
         => analysis.v["temporal"].trend = "increasing"
    /\ (\A j \in 1..(Len(MonthlyCounts) - 1) : MonthlyCounts[j] = MonthlyCounts[j + 1])
         => analysis.v["temporal"].trend = "stable"

\* analyze_weather_correlation went past its checks of the inputs
WeatherResult ==
  /\ AnalysisReturned("analyze_weather_correlation")
  /\ analysis.kind = "ok"
  /\ "error" \notin ResultFacets

\* the precipitation of the weather rows given that have one
PrecipitationValues ==
  IF "precipitation_inches" \notin snapshot[2].columns THEN <<>>
  ELSE [i \in {j \in DOMAIN snapshot[2].rows :
                 snapshot[2].rows[j]["precipitation_inches"].t = "num"} |->
          snapshot[2].rows[i]["precipitation_inches"].n]

\* C17: the result has the precipitation_correlation facet exactly when at
\* least 11 days have a precipitation value and a violation count.
C17_CorrelationNeedsElevenDays ==
  WeatherResult =>
    ("precipitation_correlation" \in ResultFacets
       <=> Cardinality(DOMAIN PrecipitationValues) >= 11)

C17_Witness ==
  /\ WeatherResult
  /\ Cardinality(DOMAIN PrecipitationValues) = 11
  /\ Len(snapshot[2].rows) = 12
  /\ "precipitation_correlation" \in ResultFacets

\* the result has the threshold analysis
ThresholdResult == WeatherResult /\ "threshold_analysis" \in ResultFacets

\* there is a violation, and every violation is on a day with an inch of
\* rain or more
AllViolationsOnWetDays ==
  LET merged == MergedRows(snapshot[1], snapshot[2])
  IN  /\ \E i \in DOMAIN merged : merged[i].violation_count > 0
      /\ \A i \in DOMAIN merged :
           merged[i].violation_count > 0
             => /\ merged[i].precipitation_inches.t = "num"
                /\ merged[i].precipitation_inches.n >= 100

\* C18: when every violation is on a day with 1.0 inch of rain or more and
\* the threshold 1.0 is reported, its relative risk is above 1.0.
C18_RelativeRiskAboveOne ==
  (/\ ThresholdResult
   /\ "above_1.0_inches" \in DOMAIN analysis.v["threshold_analysis"]
   /\ AllViolationsOnWetDays)
    => analysis.v["threshold_analysis"]["above_1.0_inches"].relative_risk > 100

\* the thresholds of the claim, in hundredths of an inch, with their keys
ReportedThresholds ==
  {<<10, "above_0.1_inches">>, <<50, "above_0.5_inches">>,
   <<100, "above_1.0_inches">>, <<200, "above_2.0_inches">>}

\* C19: the key of a threshold is in threshold_analysis exactly when a day
\* has that much precipitation or more and a day has less, and its days
\* field is the number of days with that much or more.
C19_ThresholdKeys ==
  ThresholdResult =>
    \A t \in ReportedThresholds :
      LET p == PrecipitationValues
          atOrAbove == {i \in DOMAIN p : p[i] >= t[1]}
          under == {i \in DOMAIN p : p[i] < t[1]}
          reported == analysis.v["threshold_analysis"]
      IN  /\ t[2] \in DOMAIN reported <=> (atOrAbove # {} /\ under # {})
          /\ t[2] \in DOMAIN reported => reported[t[2]].days = Cardinality(atOrAbove)

C19_Witness ==
  /\ ThresholdResult
  /\ \E i \in DOMAIN PrecipitationValues : PrecipitationValues[i] = 10
  /\ \E i \in DOMAIN PrecipitationValues : PrecipitationValues[i] = 0
  /\ DOMAIN analysis.v["threshold_analysis"] = {"above_0.1_inches"}
  /\ analysis.v["threshold_analysis"]["above_0.1_inches"].days = 1

-----------------------------------------------------------------------------
(* Properties of generate_insights.                                        *)

\* the fallback insight for the arguments of the call
FallbackOfCall ==
  Ok(_fallback_insights(iargs.results, iargs.query_type, iargs.location))

\* no client, or the one call failed, or its content was no JSON
ModelUnusable ==
  ipc = "returned" /\ (~igClient \/ ireply.kind \in {"raise", "text"})

\* C20: generate_insights makes at most one model call (none without a
\* client) and returns a value; with no client, a failed call or content
\* that is no JSON, the value is the fallback insight for the same arguments.
C20_InsightFallback ==
  /\ icalls <= 1
  /\ ~igClient => icalls = 0
  /\ ipc = "returned" => insights.kind = "ok"
  /\ ModelUnusable => insights = FallbackOfCall

C20_Witness ==
  /\ ipc = "returned"
  /\ igClient
  /\ icalls = 1
  /\ ireply.kind = "text"
  /\ iargs.query_type = "weather_correlation"
  /\ insights = FallbackOfCall
  /\ Len(insights.v.patterns) = 2

-----------------------------------------------------------------------------
(* Properties of the insights returned.                                    *)

\* the fields of an Insight
InsightFields ==
  {"summary", "key_findings", "patterns", "concerns", "recommendations", "context"}

\* generate_insights has returned a value
InsightsReturned == ipc = "returned" /\ insights.kind = "ok"

\* C21: every value generate_insights returns, from the model's answer or
\* from the fallback rules and for every query_type, has the six fields
\* summary, key_findings, patterns, concerns, recommendations and context.
C21_SixFields == InsightsReturned => InsightFields \subseteq DOMAIN insights.v

\* the AnalysisResult of the call has a rising temporal trend
RisingTrend ==
  /\ "temporal" \in DOMAIN iargs.results
  /\ Get(iargs.results.temporal, "trend", "stable") = "increasing"

\* C22: the fallback rules treat each of the six query types with its own
\* rule set: a rising temporal trend gives the pattern entry and the concern
\* entry for violation_trends (and the other types) as it does for
\* spill_analysis.
C22_RuleSetPerQueryType ==
  (ModelUnusable /\ InsightsReturned /\ RisingTrend
     /\ iargs.query_type \in {"spill_analysis", "violation_trends"}) =>
    /\ Text("Incident rate is trending upward", <<>>) \in Range(insights.v.patterns)
    /\ Text("Rising incident trend requires attention", <<>>) \in Range(insights.v.concerns)

\* the field of the AnalysisResult an entry of key_findings, patterns or
\* concerns is written from; "none" for an entry written from no field
FieldOfEntry(format) ==
  CASE format \in {"Total of {total} incidents recorded in the analysis period",
                   "Total incidents analyzed: {total_incidents}"} -> "total_incidents"
    [] format \in {"{top_count} facilities have multiple incidents",
                   "Highest: {top_name} with {top_incidents} incidents"} -> "by_facility"
    [] format \in {"Peak incidents occur in {month_names[peak_month]}",
                   "Incident rate is trending upward",
                   "Incident rate is trending downward",
                   "Rising incident trend requires attention"} -> "temporal"
    [] format \in {"{chronic} facilities with 10+ violations (chronic violators)",
                   "Chronic violators need immediate intervention"} -> "chronic_violators"
    [] format = "{repeat} facilities with 3-9 violations" -> "repeat_violators"
    [] format = "Top violator: {facility_name} with {violation_count} violations"
         -> "top_violators"
    [] format \in {"Significant correlation found (r={coef}) between rainfall and violations",
                   "Violations decrease during rainy periods",
                   "No strong correlation between rainfall and violations",
                   "Violations increase with precipitation",
                   "Infrastructure may be vulnerable to wet weather"}
         -> "precipitation_correlation"
    [] format = "Violation risk is {risk}x higher when rainfall exceeds {inches} inches"
         -> "threshold_analysis"
    [] OTHER -> "none"

\* the entries of the three lists of the insight returned
InsightEntries ==
  Range(insights.v.key_findings) \cup Range(insights.v.patterns)
    \cup Range(insights.v.concerns)

\* C23: on the fallback path, for every query_type and every AnalysisResult
\* (the empty one and the error-only one included), the call does not raise
\* and a field missing from the AnalysisResult contributes no entry to
\* key_findings, patterns or concerns.
C23_MissingFieldNoEntry ==
  ModelUnusable =>
    /\ insights.kind = "ok"
    /\ \A e \in InsightEntries :
         FieldOfEntry(e.text) \in DOMAIN iargs.results \cup {"none"}

-----------------------------------------------------------------------------
(* Properties of the counts and the merged table.                          *)

\* C26: in the result of analyze_repeat_violators the violation_count of a
\* facility is the number of rows of the table given that carry its name,
\* duplicates and rows whose violation date is null included.
C26_ViolationCountIsRowCount ==
  RepeatResult =>
    \A r \in analysis.v["top_violators"] :
      r.violation_count =
        Cardinality({i \in DOMAIN snapshot[1].rows :
                       snapshot[1].rows[i]["facility_name"] = Tok(r.facility_name)})

\* C27: with fewer than 2 rows that have both coordinates, the spatial facet
\* holds its (empty) hotspot list under the key hotspots, the key it has
\* when 2 or more such rows remain.
C27_SpatialKeyIsHotspots ==
  (AnalysisReturned("analyze_spill_patterns") /\ "spatial" \in ResultFacets
     /\ Cardinality(ValidCoords(snapshot[1])) < 2)
    => "hotspots" \in analysis.v["spatial"]

\* the rows of the violations table dated the calendar day of the cell
DatedThatDay(v, cell) ==
  {j \in DOMAIN v.rows :
     /\ to_datetime(v.rows[j]["violation_date"]).t = "ts"
     /\ to_datetime(cell).t = "ts"
     /\ to_datetime(v.rows[j]["violation_date"]).ord = to_datetime(cell).ord}

\* C28: the merged table of analyze_weather_correlation has one row for each
\* weather row (data_points is the number of weather rows), and the violation
\* count of a row is the number of violation records dated that calendar
\* day, zero when there is none; violations of other days add no rows.
C28_MergedCounts ==
  (AnalysisReturned("analyze_weather_correlation") /\ "data_points" \in ResultFacets) =>
    LET merged == MergedRows(snapshot[1], snapshot[2])
    IN  /\ analysis.v["data_points"] = Len(snapshot[2].rows)
        /\ Len(merged) = Len(snapshot[2].rows)
        /\ \A i \in DOMAIN merged :
             merged[i].violation_count
               = Cardinality(DatedThatDay(snapshot[1], snapshot[2].rows[i]["date"]))

C28_Witness ==
  /\ AnalysisReturned("analyze_weather_correlation")
  /\ "data_points" \in ResultFacets
  /\ analysis.v["data_points"] = 2
  /\ Len(snapshot[1].rows) = 2
  /\ \E j \in DOMAIN snapshot[1].rows :
       /\ to_datetime(snapshot[1].rows[j]["violation_date"]).t = "ts"
       /\ \A i \in DOMAIN snapshot[2].rows :
            j \notin DatedThatDay(snapshot[1], snapshot[2].rows[i]["date"])
  /\ MergedRows(snapshot[1], snapshot[2])[1].violation_count = 1
  /\ MergedRows(snapshot[1], snapshot[2])[2].violation_count = 0

-----------------------------------------------------------------------------
(* Properties of the state resolved from a state name.                     *)

\* the table entries whose name is the whole text, in any letter case
NamedAlone == {k \in DOMAIN states : Lower(query) = states[k][1]}

\* C29: a text whose only state mention is the full name of one of the 50
\* states, in any letter case and with no upper-case two-letter token,
\* resolves to that state's own abbreviation; so do the names that contain
\* another state's name (West Virginia, Arkansas).
C29_EachNameItsOwnState ==
  (Returned /\ OnFallbackPath) =>
    \A k \in NamedAlone : result.v.location.state = Str(states[k][2])

-----------------------------------------------------------------------------
(* Properties of concurrent analysis calls.                                *)

\* C24: concurrent analysis calls are safe: in every interleaving of two
\* calls, two calls given the same violations table included, each call
\* returns what it returns when run alone on the table its caller prepared,
\* and no call reads state the other call wrote.
C24_ConcurrentCallsIndependent ==
  \A t \in Threads :
    threads[t].pc = "returned" =>
      /\ threads[t].result
           = RunAlone(threads[t].call, prepared[threads[t].obj], threads[t].w)
      /\ ~threads[t].foreign

-----------------------------------------------------------------------------
(* Properties of app.process_query.                                        *)

\* the last stage the request went through raised
LastRaised == ran # <<>> /\ ran[Len(ran)].outcome = "raised"

\* C25: within one request the stages run in the fixed order interpret,
\* fetch, analyze, generate insight (then display and the history entry),
\* each starting only after the one before it returned; when a stage raises
\* no later stage runs and the exception is caught by the handler of
\* process_query.
C25_StagesInOrder ==
  /\ Len(ran) <= Len(StageOrder)
  /\ \A i \in DOMAIN ran :
       /\ ran[i].stage = StageOrder[i]
       /\ i < Len(ran) => ran[i].outcome = "returned"
  /\ apppc \in Range(StageOrder) => (~LastRaised /\ apppc = StageOrder[Len(ran) + 1])
  /\ LastRaised => (apppc \in {"handler", "idle"} /\ frame.e.kind = "raise")
  /\ apppc = "handler" => LastRaised

C25_Witness ==
  /\ apppc = "handler"
  /\ Len(ran) = 3
  /\ ran[3] = [stage |-> "analyze", outcome |-> "raised"]
  /\ frame.e = Raise("ValueError")
  /\ frame.insights = NoResult
  /\ served = 2

\* the session values a request writes
SessionValues == {"current_data", "current_results", "current_insights"}

\* C30: after any sequence of requests, those where a stage raises included,
\* current_data, current_results and current_insights come from the same
\* query: a failure after the fetch never leaves the data of the new query
\* next to results or insights of an earlier one; and a query is in
\* query_history only when its request ran to its end, and at most once.
C30_SessionOfOneQuery ==
  /\ apppc = "idle" =>
       \A a, b \in SessionValues :
         (origin[a] # 0 /\ origin[b] # 0) => origin[a] = origin[b]
  /\ \A i, j \in DOMAIN session.query_history :
       i # j => session.query_history[i] # session.query_history[j]
  /\ \A i \in DOMAIN session.query_history :
       session.query_history[i] \in origin.completed

=============================================================================
